---- MODULE Spec2Model ----
(***************************************************************************)
(* Model of cveapi: the worker pool (internal/worker/pool.go), the index   *)
(* manager over the bolt store and the bleve index (internal/index), and   *)
(* the sync engine (main.go: indexFile, syncOnce).                         *)
(*                                                                         *)
(* Ten specifications share the variables:                                 *)
(*   SpecPool  the worker pool with goroutines that submit, stop and drain *)
(*   SpecStop  the pool as runIndexing drives it, with fair scheduling     *)
(*   SpecIdx   callers of Index.Index / Index.Delete with injected faults  *)
(*   Spec      sync passes over a changing file tree                       *)
(*   SpecMove  the same with files moved between directories               *)
(*   SpecBoot  main: buildIndex, runIndexing and the startSyncLoop loop    *)
(*   SpecQuery Index.ListLatest and files.CollectLatest on given states    *)
(*   SpecReindex  Index.Reindex on given states of store and index         *)
(*   SpecConfig   buildIndex normalizing the configured paths              *)
(*   SpecRace     two goroutines calling Index.Index / Index.Delete        *)
(***************************************************************************)
EXTENDS Integers, Sequences, FiniteSets, TLC

None == "none"

(***************************************************************************)
(* Bounds of the model.                                                    *)
(***************************************************************************)
NumWorkers == 2
MaxTasks == 3
MaxFaults == 1
MaxCalls == 4
MaxFsOps == 2
MaxPasses == 2
MaxLimit == 3

VARIABLES
    \* ---- worker pool (pool.go)
    ctxDone,        \* p.ctx has been cancelled
    tasksClosed,    \* close(p.tasks) has happened
    resultsClosed,  \* close(p.results) has happened
    wg,             \* p.wg counter
    wk,             \* worker goroutine -> [pc, task, err]
    sub,            \* submitting goroutine -> [pc, task] (a Submit call frame)
    mpc,            \* position of the goroutine that calls Start and Stop
    cpc,            \* position of the goroutine ranging over Results()
    got,            \* task -> sequence of errors of the Results received for it
    panic,          \* "none", or the runtime panic that killed the process
    \* ---- history of the pool
    used,           \* tasks passed to Submit so far
    stopCalled,     \* Stop() has been entered
    beforeStop,     \* tasks whose Submit returned before Stop() was entered
    afterStop,      \* tasks whose Submit was issued after Stop() returned
    executed,       \* task -> number of times the processor ran on it
    \* ---- index manager (index.go, store.go)
    store,          \* CVEBucket: document id -> stored bytes, or NoBytes
    index,          \* bleve index: document id -> indexed document, or NoDoc
    ixOpen,         \* idx.index is an open bleve index (Reindex can leave it closed)
    puts,           \* history: id -> document of the last Index.Index call that
                    \* returned nil (acked) and that wrote the store (written)
    meta,           \* MetaBucket: file path -> FileMeta, or NoMeta
    call,           \* caller -> frame of its Index.Index / Index.Delete call
    faults,         \* number of store / index failures injected so far
    calls,          \* number of calls made by the api caller so far
    \* ---- file tree and sync engine (main.go)
    fs,             \* file path -> [mt, body] of the file on disk, or NoFile
    clock,          \* file path -> modification time of the last write to it
    fsOps,          \* number of changes made to the file tree so far
    sy,             \* the goroutine in syncOnce: position and local variables
    pass,           \* bookkeeping of the current pass, see SyncStart
    indexedAt,      \* path -> FileMeta values indexFile has indexed the path at
    \* ---- startup (main.go: main, buildIndex, runIndexing, startSyncLoop)
    cfg,            \* Config as buildIndex leaves it: AsyncIndex, BasePath, IndexPath
    boot,           \* positions of main and of the startSyncLoop goroutine, ticker.C
    bulk,           \* the goroutine in runIndexing: position and walk state
    bw              \* worker of runIndexing's pool -> [pc, path, info]

poolVars == <<ctxDone, tasksClosed, resultsClosed, wg, wk, sub, mpc, cpc, got,
              panic, used, stopCalled, beforeStop, afterStop, executed>>

idxVars == <<store, index, ixOpen, puts, meta, call, faults, calls>>

syncVars == <<fs, clock, fsOps, sy, pass, indexedAt>>

bootVars == <<cfg, boot, bulk, bw>>

nonPoolVars == <<idxVars, syncVars, bootVars>>

nonIdxVars == <<poolVars, syncVars, bootVars>>

vars == <<poolVars, idxVars, syncVars, bootVars>>

\* log.Fatalf has not ended the process.
Running == bulk.pc # "fatal"

(***************************************************************************)
(* Worker pool                                                             *)
(***************************************************************************)
Workers == 1..NumWorkers
Tasks == 1..MaxTasks
Submitters == {"main", "aux"}
ErrPoolClosed == "pool is closed"
ProcErrs == {"nil", "processor error"}

Alive == panic = None

InitPool ==
    /\ ctxDone = FALSE
    /\ tasksClosed = FALSE
    /\ resultsClosed = FALSE
    /\ wg = 0
    /\ wk = [w \in Workers |-> [pc |-> "new", task |-> 0, err |-> "nil"]]
    /\ sub = [s \in Submitters |-> [pc |-> "idle", task |-> 0]]
    /\ mpc = "new"
    /\ cpc = "range"
    /\ got = [t \in Tasks |-> <<>>]
    /\ panic = None
    /\ used = {}
    /\ stopCalled = FALSE
    /\ beforeStop = {}
    /\ afterStop = {}
    /\ executed = [t \in Tasks |-> 0]

\* Start: wg.Add(1) and go p.worker(), once per worker.
Start ==
    /\ Alive /\ mpc = "new"
    /\ wg' = wg + NumWorkers
    /\ wk' = [w \in Workers |-> [wk[w] EXCEPT !.pc = "recv"]]
    /\ mpc' = "run"
    /\ UNCHANGED nonPoolVars
    /\ UNCHANGED <<ctxDone, tasksClosed, resultsClosed, sub, cpc, got, panic,
                   used, stopCalled, beforeStop, afterStop, executed>>

\* A goroutine enters Submit(task) and reaches the select.
SubmitCall(s, t) ==
    /\ Alive /\ sub[s].pc = "idle" /\ t \notin used
    /\ s = "main" => mpc \in {"run", "stopped"}
    /\ sub' = [sub EXCEPT ![s] = [pc |-> "select", task |-> t]]
    /\ used' = used \cup {t}
    /\ afterStop' = IF mpc = "stopped" THEN afterStop \cup {t} ELSE afterStop
    /\ UNCHANGED nonPoolVars
    /\ UNCHANGED <<ctxDone, tasksClosed, resultsClosed, wg, wk, mpc, cpc, got,
                   panic, stopCalled, beforeStop, executed>>

\* A task channel with a buffer: the send completes and Submit returns with
\* no worker receiving the task.
SubmitSendBuffered(s, w) ==
    /\ Alive /\ sub[s].pc = "select" /\ ~tasksClosed
    /\ sub' = [sub EXCEPT ![s] = [pc |-> "idle", task |-> 0]]
    /\ beforeStop' = IF stopCalled THEN beforeStop ELSE beforeStop \cup {sub[s].task}
    /\ UNCHANGED nonPoolVars
    /\ UNCHANGED <<ctxDone, tasksClosed, resultsClosed, wg, wk, mpc, cpc, got, panic,
                   used, stopCalled, afterStop, executed>>

\* case p.tasks <- task, met by a worker's case task, ok := <-p.tasks:
\* the unbuffered channel hands the task over and Submit returns.
SubmitSend(s, w) ==
    /\ Alive /\ sub[s].pc = "select" /\ ~tasksClosed
    /\ wk[w].pc = "recv"
    /\ wk' = [wk EXCEPT ![w] = [pc |-> "proc", task |-> sub[s].task, err |-> "nil"]]
    /\ sub' = [sub EXCEPT ![s] = [pc |-> "idle", task |-> 0]]
    /\ beforeStop' = IF stopCalled THEN beforeStop ELSE beforeStop \cup {sub[s].task}
    /\ UNCHANGED nonPoolVars
    /\ UNCHANGED <<ctxDone, tasksClosed, resultsClosed, wg, mpc, cpc, got, panic,
                   used, stopCalled, afterStop, executed>>

\* case p.tasks <- task on a closed channel: the send case is ready and panics.
SubmitSendClosed(s) ==
    /\ Alive /\ sub[s].pc = "select" /\ tasksClosed
    /\ panic' = "send on closed channel: tasks"
    /\ sub' = [sub EXCEPT ![s].pc = "panic"]
    /\ UNCHANGED nonPoolVars
    /\ UNCHANGED <<ctxDone, tasksClosed, resultsClosed, wg, wk, mpc, cpc, got,
                   used, stopCalled, beforeStop, afterStop, executed>>

\* case <-p.ctx.Done(): Submit goes on to send the "pool is closed" Result.
SubmitCtxDone(s) ==
    /\ Alive /\ sub[s].pc = "select" /\ ctxDone
    /\ sub' = [sub EXCEPT ![s].pc = "sendres"]
    /\ UNCHANGED nonPoolVars
    /\ UNCHANGED <<ctxDone, tasksClosed, resultsClosed, wg, wk, mpc, cpc, got,
                   panic, used, stopCalled, beforeStop, afterStop, executed>>

\* p.results <- Result{task, "pool is closed"}: received by the ranging
\* goroutine, or a panic when p.results is closed.
SubmitResult(s) ==
    /\ Alive /\ sub[s].pc = "sendres"
    /\ IF resultsClosed
         THEN /\ panic' = "send on closed channel: results"
              /\ sub' = [sub EXCEPT ![s].pc = "panic"]
              /\ got' = got
         ELSE /\ cpc = "range"
              /\ got' = [got EXCEPT ![sub[s].task] = Append(@, ErrPoolClosed)]
              /\ sub' = [sub EXCEPT ![s] = [pc |-> "idle", task |-> 0]]
              /\ panic' = panic
    /\ UNCHANGED nonPoolVars
    /\ UNCHANGED <<ctxDone, tasksClosed, resultsClosed, wg, wk, mpc, cpc,
                   used, stopCalled, beforeStop, afterStop, executed>>

\* A worker that returns on cancellation with the task it has received.
WorkerExitAnywhere(w) ==
    /\ Alive /\ wk[w].pc \in {"recv", "proc"}
    /\ tasksClosed \/ ctxDone
    /\ wk' = [wk EXCEPT ![w].pc = "exited"]
    /\ wg' = wg - 1
    /\ UNCHANGED nonPoolVars
    /\ UNCHANGED <<ctxDone, tasksClosed, resultsClosed, sub, mpc, cpc, got, panic,
                   used, stopCalled, beforeStop, afterStop, executed>>

\* A worker that returns without the deferred p.wg.Done().
WorkerExitNoDone(w) ==
    /\ Alive /\ wk[w].pc = "recv"
    /\ tasksClosed \/ ctxDone
    /\ wk' = [wk EXCEPT ![w].pc = "exited"]
    /\ UNCHANGED nonPoolVars
    /\ UNCHANGED <<ctxDone, tasksClosed, resultsClosed, wg, sub, mpc, cpc, got, panic,
                   used, stopCalled, beforeStop, afterStop, executed>>

\* worker: case task, ok := <-p.tasks with !ok, or case <-p.ctx.Done():
\* return, and the deferred p.wg.Done() runs.
WorkerExit(w) ==
    /\ Alive /\ wk[w].pc = "recv"
    /\ tasksClosed \/ ctxDone
    /\ wk' = [wk EXCEPT ![w].pc = "exited"]
    /\ wg' = wg - 1
    /\ UNCHANGED nonPoolVars
    /\ UNCHANGED <<ctxDone, tasksClosed, resultsClosed, sub, mpc, cpc, got, panic,
                   used, stopCalled, beforeStop, afterStop, executed>>

\* worker: err := p.processor(task)
WorkerProcess(w) ==
    /\ Alive /\ wk[w].pc = "proc"
    /\ \E e \in ProcErrs : wk' = [wk EXCEPT ![w].pc = "send", ![w].err = e]
    /\ executed' = [executed EXCEPT ![wk[w].task] = @ + 1]
    /\ UNCHANGED nonPoolVars
    /\ UNCHANGED <<ctxDone, tasksClosed, resultsClosed, wg, sub, mpc, cpc, got,
                   panic, used, stopCalled, beforeStop, afterStop>>

\* worker: p.results <- Result{Task: task, Error: err}
WorkerResult(w) ==
    /\ Alive /\ wk[w].pc = "send"
    /\ IF resultsClosed
         THEN /\ panic' = "send on closed channel: results"
              /\ wk' = [wk EXCEPT ![w].pc = "panic"]
              /\ got' = got
         ELSE /\ cpc = "range"
              /\ got' = [got EXCEPT ![wk[w].task] = Append(@, wk[w].err)]
              /\ wk' = [wk EXCEPT ![w] = [pc |-> "recv", task |-> 0, err |-> "nil"]]
              /\ panic' = panic
    /\ UNCHANGED nonPoolVars
    /\ UNCHANGED <<ctxDone, tasksClosed, resultsClosed, wg, sub, mpc, cpc,
                   used, stopCalled, beforeStop, afterStop, executed>>

\* Stop: p.cancel()
StopCancel ==
    /\ Alive /\ mpc = "run" /\ sub["main"].pc = "idle"
    /\ ctxDone' = TRUE
    /\ stopCalled' = TRUE
    /\ mpc' = "stop_close"
    /\ UNCHANGED nonPoolVars
    /\ UNCHANGED <<tasksClosed, resultsClosed, wg, wk, sub, cpc, got, panic,
                   used, beforeStop, afterStop, executed>>

\* Stop: close(p.tasks)
StopCloseTasks ==
    /\ Alive /\ mpc = "stop_close"
    /\ tasksClosed' = TRUE
    /\ mpc' = "stop_wait"
    /\ UNCHANGED nonPoolVars
    /\ UNCHANGED <<ctxDone, resultsClosed, wg, wk, sub, cpc, got, panic,
                   used, stopCalled, beforeStop, afterStop, executed>>

\* Stop without p.wg.Wait(): the result stream is closed while workers run.
StopCloseResultsNoWait ==
    /\ Alive /\ mpc = "stop_wait"
    /\ resultsClosed' = TRUE
    /\ mpc' = "stopped"
    /\ UNCHANGED nonPoolVars
    /\ UNCHANGED <<ctxDone, tasksClosed, wg, wk, sub, cpc, got, panic,
                   used, stopCalled, beforeStop, afterStop, executed>>

\* Stop: p.wg.Wait(); close(p.results)
StopCloseResults ==
    /\ Alive /\ mpc = "stop_wait" /\ wg = 0
    /\ resultsClosed' = TRUE
    /\ mpc' = "stopped"
    /\ UNCHANGED nonPoolVars
    /\ UNCHANGED <<ctxDone, tasksClosed, wg, wk, sub, cpc, got, panic,
                   used, stopCalled, beforeStop, afterStop, executed>>

\* for result := range pool.Results() ends when the channel is closed.
RangeEnds ==
    /\ Alive /\ cpc = "range" /\ resultsClosed
    /\ cpc' = "done"
    /\ UNCHANGED nonPoolVars
    /\ UNCHANGED <<ctxDone, tasksClosed, resultsClosed, wg, wk, sub, mpc, got,
                   panic, used, stopCalled, beforeStop, afterStop, executed>>

(***************************************************************************)
(* Documents, the bolt store and the bleve index                           *)
(***************************************************************************)

\* Paths of the CVE files below BasePath, as sequences of path elements.
Paths == {<<"a", "A.json">>, <<"b", "A.json">>, <<"a", "B.json">>}

\* The file bleve keeps in the directory of the index, and a file in the
\* source tree that is no document.
IndexDir == ".index"
IndexMetaFile == <<IndexDir, "index_meta.json">>
NotesFile == <<"a", "notes.txt">>
AllPaths == Paths \cup {IndexMetaFile, NotesFile}

\* filepath.Base and filepath.Ext
Base(path) == path[Len(path)]
Ext(path) == IF Base(path) = "notes.txt" THEN ".txt" ELSE ".json"

\* Identifiers the callers of the index manager use, and every identifier
\* a file name can give.
ApiIDs == {Base(path) : path \in Paths}
DocIDs == {Base(path) : path \in AllPaths}

\* Absolute paths as strings: sequences of separators and names.
Sep == "/"
Root == <<Sep>>
DataDir == <<Sep, "data">>
OutsideIndex == <<Sep, "var", Sep, "index">>

\* filepath.Join(base, name) for a clean absolute base.
Join(base, name) == IF base = Root THEN base \o <<name>> ELSE base \o <<Sep, name>>

\* strings.HasPrefix
HasPrefix(str, prefix) ==
    Len(prefix) <= Len(str) /\ SubSeq(str, 1, Len(prefix)) = prefix

\* runIndexing and syncOnce:
\* indexUnderBase := strings.HasPrefix(indexPath, basePath+string(os.PathSeparator))
IndexUnderBase(indexPath, basePath) == HasPrefix(indexPath, basePath \o <<Sep>>)

\* The index directory is the directory IndexDir of the source tree.
IndexInTree(c) == c.IndexPath = Join(c.BasePath, IndexDir)

\* Configurations after buildIndex: the index in the default place below
\* BasePath, for a source tree in /data and for one that is the root
\* directory.
Layouts == {[BasePath |-> DataDir, IndexPath |-> Join(DataDir, IndexDir)],
            [BasePath |-> Root, IndexPath |-> Join(Root, IndexDir)]}
Configs == {[AsyncIndex |-> a, BasePath |-> l.BasePath, IndexPath |-> l.IndexPath] :
               a \in BOOLEAN, l \in Layouts}

\* files.CVERecord, reduced to a free-text field and the publish date.
Titles == {"first-title", "second-title"}
Pubs == {1, 2, 3}
Docs == [title : Titles, pub : Pubs]
NoDoc == [title |-> None, pub |-> 0]    \* no entry in the index
NoBytes == <<>>                         \* no value in a bucket (nil)
NoMeta == [ModTime |-> 0, Size |-> 0, DocID |-> None]   \* no FileMeta

\* json.Marshal of a record and json.Unmarshal of stored bytes.
Marshal(doc) == <<"{", doc.title, doc.pub, "}">>
Unmarshal(bytes) == [title |-> bytes[2], pub |-> bytes[3]]

\* Store.Put, Store.Delete, Store.Get on the CVE bucket (one bolt transaction).
StorePut(st, id, doc) == [st EXCEPT ![id] = Marshal(doc)]
StoreDelete(st, id) == [st EXCEPT ![id] = NoBytes]
StoreGet(st, id) == IF st[id] = NoBytes THEN [err |-> "not found", data |-> NoBytes]
                    ELSE [err |-> "nil", data |-> st[id]]

\* bleve: index.Index(id, doc), index.Delete(id), index.DocCount().
BleveIndex(ix, id, doc) == [ix EXCEPT ![id] = doc]
BleveDelete(ix, id) == [ix EXCEPT ![id] = NoDoc]
Count == Cardinality({id \in DocIDs : index[id] # NoDoc})

\* The keys of the CVE bucket in the order Store.ForEach visits them (bolt
\* iterates a bucket in byte order of its keys).
KeyOrder == <<"A.json", "B.json", "index_meta.json", "notes.txt">>

Reverse(s) == [i \in 1..Len(s) |-> s[Len(s) + 1 - i]]

\* The sequences that list every element of S exactly once.
Orderings(S) ==
    {h \in [1..Cardinality(S) -> S] :
        \A i, j \in 1..Cardinality(S) : i # j => h[i] # h[j]}

\* Index.ListLatest: a limit of zero or less stands for 50.  (LimitOfOne: it
\* stands for 1.)
LimitOfOne(limit) == IF limit <= 0 THEN 1 ELSE limit
LimitOf(limit) == IF limit <= 0 THEN 50 ELSE limit

\* Index.ListLatest, sorted query: match-all search sorted by descending
\* publish date as the index holds it, cut to limit hits.  Hits with equal
\* dates come in any order.
SearchLatest(ix, limit) ==
    LET ids == {id \in DocIDs : ix[id] # NoDoc}
        sorted == {h \in Orderings(ids) :
                     \A i, j \in 1..Len(h) : i < j => ix[h[i]].pub >= ix[h[j]].pub}
    IN  {SubSeq(h, 1, IF limit < Len(h) THEN limit ELSE Len(h)) : h \in sorted}

\* Index.ListLatest, sorted query: each hit is fetched from the store and
\* unmarshalled; a hit the store does not hold, or whose stored value does
\* not unmarshal (the ids in broken), is skipped and the loop goes on.
\* (FetchHitsStop: the loop ends at the first hit it cannot fetch.)
RECURSIVE FetchHitsStop(_, _, _)
FetchHitsStop(st, hits, broken) ==
    IF hits = <<>> THEN <<>>
    ELSE LET val == StoreGet(st, Head(hits))
         IN  IF val.err # "nil" \/ Head(hits) \in broken THEN <<>>
             ELSE <<Unmarshal(val.data)>> \o FetchHitsStop(st, Tail(hits), broken)
RECURSIVE FetchHits(_, _, _)
FetchHits(st, hits, broken) ==
    IF hits = <<>> THEN <<>>
    ELSE LET val == StoreGet(st, Head(hits))
         IN  IF val.err # "nil" \/ Head(hits) \in broken
               THEN FetchHits(st, Tail(hits), broken)
               ELSE <<Unmarshal(val.data)>> \o FetchHits(st, Tail(hits), broken)

\* heap.Push and heap.Pop on _minHeap, the heap kept as the ascending
\* sequence of its records: Pop takes the record with the oldest date.
\* (HeapPopNewest: a heap that gives up its newest record.)
HeapPush(h, rec) ==
    LET k == Cardinality({i \in 1..Len(h) : h[i].pub <= rec.pub})
    IN  SubSeq(h, 1, k) \o <<rec>> \o SubSeq(h, k + 1, Len(h))
HeapPopNewest(h) == SubSeq(h, 1, Len(h) - 1)
HeapPop(h) == Tail(h)

\* Index.ListLatest, fallback: Store.ForEach pushes every stored record and
\* pops the oldest one whenever the heap holds more than limit records.
RECURSIVE ScanLatest(_, _, _, _)
ScanLatest(st, keys, h, limit) ==
    IF keys = <<>> THEN h
    ELSE IF st[Head(keys)] = NoBytes THEN ScanLatest(st, Tail(keys), h, limit)
    ELSE LET pushed == HeapPush(h, Unmarshal(st[Head(keys)]))
         IN  ScanLatest(st, Tail(keys),
                        IF Len(pushed) > limit THEN HeapPop(pushed) ELSE pushed,
                        limit)

\* Index.ListLatest(limit): the record lists the call can return, by the
\* sorted query or, when the search fails, by the heap drained and reversed.
ListLatestSorted(limit) ==
    {FetchHits(store, hits, {}) : hits \in SearchLatest(index, LimitOf(limit))}
ListLatestFallback(limit) ==
    Reverse(ScanLatest(store, KeyOrder, <<>>, LimitOf(limit)))
ListLatest(limit) == ListLatestSorted(limit) \cup {ListLatestFallback(limit)}

\* The errors Index.Index and Index.Delete wrap.
ErrStorePut == "failed to store document"
ErrIndexPut == "failed to index document"
ErrIndexDelete == "failed to delete from index"
ErrStoreDelete == "failed to delete from store"

\* The goroutines that call the index manager: the api, a second goroutine
\* of the api (peer), the sync loop and the workers of runIndexing's pool.
BulkCaller(w) == "bulk" \o ToString(w)
Callers == {"api", "peer", "sync"} \cup {BulkCaller(w) : w \in Workers}
IdleFrame == [pc |-> "idle", op |-> None, id |-> None, doc |-> NoDoc,
              err |-> "nil", steps |-> <<>>, todo |-> <<>>, arg |-> 0, out |-> <<>>,
              pre |-> [store |-> [id \in DocIDs |-> NoBytes],
                       index |-> [id \in DocIDs |-> NoDoc]]]

\* No call of Index.Index for an id so far, or a Delete has removed it.
NoPuts == [acked |-> NoDoc, written |-> NoDoc]

InitIndex ==
    /\ store = [id \in DocIDs |-> NoBytes]
    /\ index = [id \in DocIDs |-> NoDoc]
    /\ ixOpen = TRUE
    /\ puts = [id \in DocIDs |-> NoPuts]
    /\ meta = [path \in AllPaths |-> NoMeta]
    /\ call = [c \in Callers |-> IdleFrame]
    /\ faults = 0
    /\ calls = 0

\* Entry of Index.Index(id, doc); pre remembers store and index at the call.
EnterIndex(id, doc) ==
    [pc |-> "put_store", op |-> "Index", id |-> id, doc |-> doc, err |-> "nil",
     steps |-> <<>>, todo |-> <<>>, arg |-> 0, out |-> <<>>,
     pre |-> [store |-> store, index |-> index]]

\* Entry of Index.Delete(id).
EnterDelete(id) ==
    [pc |-> "del_index", op |-> "Delete", id |-> id, doc |-> NoDoc, err |-> "nil",
     steps |-> <<>>, todo |-> <<>>, arg |-> 0, out |-> <<>>,
     pre |-> [store |-> store, index |-> index]]

\* Index.Index where a failed store write is ignored and the index is written.
IndexStoreIgnoreErr(c) ==
    /\ call[c].pc = "put_store"
    /\ \/ /\ store' = StorePut(store, call[c].id, call[c].doc)
          /\ call' = [call EXCEPT ![c].pc = "put_index",
                                  ![c].steps = Append(@, "store ok")]
          /\ faults' = faults
       \/ /\ faults < MaxFaults
          /\ faults' = faults + 1
          /\ store' = store
          /\ call' = [call EXCEPT ![c].pc = "put_index", ![c].err = ErrStorePut,
                                  ![c].steps = Append(@, "store failed")]
    /\ UNCHANGED <<index, meta, calls, ixOpen, puts>>
    /\ UNCHANGED nonIdxVars

\* Index.Index: idx.store.Put(id, doc); on error return "failed to store
\* document" (the bolt transaction rolls back, the bucket is unchanged).
IndexStore(c) ==
    /\ Running
    /\ call[c].pc = "put_store"
    /\ \/ /\ store' = StorePut(store, call[c].id, call[c].doc)
          /\ puts' = [puts EXCEPT ![call[c].id].written = call[c].doc]
          /\ call' = [call EXCEPT ![c].pc = "put_index",
                                  ![c].steps = Append(@, "store ok")]
          /\ faults' = faults
       \/ /\ faults < MaxFaults
          /\ faults' = faults + 1
          /\ store' = store
          /\ puts' = puts
          /\ call' = [call EXCEPT ![c].pc = "ret", ![c].err = ErrStorePut,
                                  ![c].steps = Append(@, "store failed")]
    /\ UNCHANGED <<index, meta, calls, ixOpen>>
    /\ UNCHANGED nonIdxVars

\* Index.Index where a failed index write undoes the store write.
IndexBleveRollback(c) ==
    /\ call[c].pc = "put_index"
    /\ \/ /\ index' = BleveIndex(index, call[c].id, call[c].doc)
          /\ call' = [call EXCEPT ![c].pc = "ret",
                                  ![c].steps = Append(@, "index ok")]
          /\ UNCHANGED <<faults, store>>
       \/ /\ faults < MaxFaults
          /\ faults' = faults + 1
          /\ index' = index
          /\ store' = call[c].pre.store
          /\ call' = [call EXCEPT ![c].pc = "ret", ![c].err = ErrIndexPut,
                                  ![c].steps = Append(@, "index failed")]
    /\ UNCHANGED <<meta, calls, ixOpen, puts>>
    /\ UNCHANGED nonIdxVars

\* Index.Index where only a document not yet indexed is written to bleve.
IndexBleveNoReplace(c) ==
    /\ call[c].pc = "put_index"
    /\ index' = IF index[call[c].id] = NoDoc
                  THEN BleveIndex(index, call[c].id, call[c].doc) ELSE index
    /\ call' = [call EXCEPT ![c].pc = "ret", ![c].steps = Append(@, "index ok")]
    /\ UNCHANGED <<faults, store, meta, calls, ixOpen, puts>>
    /\ UNCHANGED nonIdxVars

\* Index.Index: idx.index.Index(id, doc); on error return "failed to index
\* document".  The store write stays.  A closed index refuses every write.
IndexBleve(c) ==
    /\ Running
    /\ call[c].pc = "put_index"
    /\ \/ /\ ixOpen
          /\ index' = BleveIndex(index, call[c].id, call[c].doc)
          /\ puts' = [puts EXCEPT ![call[c].id].acked = call[c].doc]
          /\ call' = [call EXCEPT ![c].pc = "ret",
                                  ![c].steps = Append(@, "index ok")]
          /\ faults' = faults
       \/ /\ ixOpen /\ faults < MaxFaults
          /\ faults' = faults + 1
          /\ index' = index
          /\ puts' = puts
          /\ call' = [call EXCEPT ![c].pc = "ret", ![c].err = ErrIndexPut,
                                  ![c].steps = Append(@, "index failed")]
       \/ /\ ~ixOpen
          /\ faults' = faults
          /\ index' = index
          /\ puts' = puts
          /\ call' = [call EXCEPT ![c].pc = "ret", ![c].err = ErrIndexPut,
                                  ![c].steps = Append(@, "index failed")]
    /\ UNCHANGED <<store, meta, calls, ixOpen>>
    /\ UNCHANGED nonIdxVars

\* Index.Delete where a failed index delete is ignored and the store entry
\* is deleted.
DeleteBleveIgnoreErr(c) ==
    /\ call[c].pc = "del_index"
    /\ \/ /\ index' = BleveDelete(index, call[c].id)
          /\ call' = [call EXCEPT ![c].pc = "del_store",
                                  ![c].steps = Append(@, "index ok")]
          /\ faults' = faults
       \/ /\ faults < MaxFaults
          /\ faults' = faults + 1
          /\ index' = index
          /\ call' = [call EXCEPT ![c].pc = "del_store", ![c].err = ErrIndexDelete,
                                  ![c].steps = Append(@, "index failed")]
    /\ UNCHANGED <<store, meta, calls, ixOpen, puts>>
    /\ UNCHANGED nonIdxVars

\* Index.Delete: idx.index.Delete(id); on error return "failed to delete from
\* index".
DeleteBleve(c) ==
    /\ Running
    /\ call[c].pc = "del_index"
    /\ \/ /\ ixOpen
          /\ index' = BleveDelete(index, call[c].id)
          /\ call' = [call EXCEPT ![c].pc = "del_store",
                                  ![c].steps = Append(@, "index ok")]
          /\ faults' = faults
       \/ /\ ixOpen /\ faults < MaxFaults
          /\ faults' = faults + 1
          /\ index' = index
          /\ call' = [call EXCEPT ![c].pc = "ret", ![c].err = ErrIndexDelete,
                                  ![c].steps = Append(@, "index failed")]
       \/ /\ ~ixOpen
          /\ faults' = faults
          /\ index' = index
          /\ call' = [call EXCEPT ![c].pc = "ret", ![c].err = ErrIndexDelete,
                                  ![c].steps = Append(@, "index failed")]
    /\ UNCHANGED <<store, meta, calls, ixOpen, puts>>
    /\ UNCHANGED nonIdxVars

\* Index.Delete where a failed store delete puts the index entry back.
DeleteStoreRestore(c) ==
    /\ call[c].pc = "del_store"
    /\ \/ /\ store' = StoreDelete(store, call[c].id)
          /\ call' = [call EXCEPT ![c].pc = "ret",
                                  ![c].steps = Append(@, "store ok")]
          /\ UNCHANGED <<faults, index>>
       \/ /\ faults < MaxFaults
          /\ faults' = faults + 1
          /\ store' = store
          /\ index' = call[c].pre.index
          /\ call' = [call EXCEPT ![c].pc = "ret", ![c].err = ErrStoreDelete,
                                  ![c].steps = Append(@, "store failed")]
    /\ UNCHANGED <<meta, calls, ixOpen, puts>>
    /\ UNCHANGED nonIdxVars

\* Index.Delete: idx.store.Delete(id); on error return "failed to delete from
\* store".  The index entry is already gone.
DeleteStore(c) ==
    /\ Running
    /\ call[c].pc = "del_store"
    /\ \/ /\ store' = StoreDelete(store, call[c].id)
          /\ puts' = [puts EXCEPT ![call[c].id] = NoPuts]
          /\ call' = [call EXCEPT ![c].pc = "ret",
                                  ![c].steps = Append(@, "store ok")]
          /\ faults' = faults
       \/ /\ faults < MaxFaults
          /\ faults' = faults + 1
          /\ store' = store
          /\ puts' = puts
          /\ call' = [call EXCEPT ![c].pc = "ret", ![c].err = ErrStoreDelete,
                                  ![c].steps = Append(@, "store failed")]
    /\ UNCHANGED <<index, meta, calls, ixOpen>>
    /\ UNCHANGED nonIdxVars

\* A caller outside the sync engine calls Index.Index(id, doc).
ApiIndex(id, doc) ==
    /\ call["api"].pc \in {"idle", "ret"} /\ calls < MaxCalls
    /\ call' = [call EXCEPT !["api"] = EnterIndex(id, doc)]
    /\ calls' = calls + 1
    /\ UNCHANGED <<store, index, meta, faults, ixOpen, puts>>
    /\ UNCHANGED nonIdxVars

\* A caller outside the sync engine calls Index.Delete(id).
ApiDelete(id) ==
    /\ call["api"].pc \in {"idle", "ret"} /\ calls < MaxCalls
    /\ call' = [call EXCEPT !["api"] = EnterDelete(id)]
    /\ calls' = calls + 1
    /\ UNCHANGED <<store, index, meta, faults, ixOpen, puts>>
    /\ UNCHANGED nonIdxVars

\* A second goroutine calls Index.Index(id, doc) or Index.Delete(id) while
\* the call of the first may be in progress: Index has no lock.
PeerIndex(id, doc) ==
    /\ call["peer"].pc \in {"idle", "ret"} /\ calls < MaxCalls
    /\ call' = [call EXCEPT !["peer"] = EnterIndex(id, doc)]
    /\ calls' = calls + 1
    /\ UNCHANGED <<store, index, meta, faults, ixOpen, puts>>
    /\ UNCHANGED nonIdxVars

PeerDelete(id) ==
    /\ call["peer"].pc \in {"idle", "ret"} /\ calls < MaxCalls
    /\ call' = [call EXCEPT !["peer"] = EnterDelete(id)]
    /\ calls' = calls + 1
    /\ UNCHANGED <<store, index, meta, faults, ixOpen, puts>>
    /\ UNCHANGED nonIdxVars

(***************************************************************************)
(* The file tree and the sync engine: indexFile and syncOnce               *)
(***************************************************************************)

\* Directories below BasePath and the files in them, in the lexical order in
\* which filepath.WalkDir visits them and bolt iterates its keys.
DirOrder == <<IndexDir, "a", "b">>
WalkOrder == <<IndexMetaFile, <<"a", "A.json">>, <<"a", "B.json">>, NotesFile,
               <<"b", "A.json">>>>

\* The directories of the source tree: the index directory is one of them
\* when the index is kept there.
TreeDirs(c) == SelectSeq(DirOrder, LAMBDA d : d # IndexDir \/ IndexInTree(c))

\* Contents a file can have: a serialized record, or bytes that do not parse.
Garbage == <<"{", "garbage">>
FileBodies == {Marshal(d) : d \in {x \in Docs : x.pub = 1}} \cup {Garbage}
NoFile == [mt |-> 0, body |-> <<>>]

\* index_meta.json as bleve writes it: a JSON object with none of the fields
\* of a CVE record.
IndexMetaBody == <<"{", "storage", 0, "}">>

\* info.Size(): the length of the file's bytes.
SizeOf(body) ==
    CASE body = Garbage -> 9
      [] body[2] = "first-title" -> 11
      [] body[2] = "second-title" -> 12
      [] body[2] = "storage" -> 7
      [] OTHER -> 0

\* os.Stat / d.Info() of a file on disk.
StatOf(file) == [ModTime |-> file.mt, Size |-> SizeOf(file.body)]
NoInfo == [ModTime |-> 0, Size |-> 0]

\* index.FileMeta{ModTime, Size, DocID} as indexFile builds it.
FileMetaOf(info, path) ==
    [ModTime |-> info.ModTime, Size |-> info.Size, DocID |-> Base(path)]

\* syncOnce compares the wrong fields: the file is never found unchanged.
UnchangedMixedFields(m, info) ==
    m # NoMeta /\ m.ModTime = info.Size /\ m.Size = info.ModTime

\* syncOnce skips every file that has a FileMeta entry, whatever it records.
UnchangedAnyMeta(m, info) == m # NoMeta

\* syncOnce: err == nil && meta.ModTime == info.ModTime().UnixNano() &&
\* meta.Size == info.Size()
Unchanged(m, info) ==
    m # NoMeta /\ m.ModTime = info.ModTime /\ m.Size = info.Size

\* The startup variables before main has done anything; the index is kept
\* outside of the source tree.
BwIdle == [pc |-> "idle", path |-> <<>>, info |-> NoInfo]
BootOff == [main |-> "build", loop |-> "off", tick |-> FALSE, active |-> 0,
            raw |-> <<>>]
BulkOff == [pc |-> "off", dirs |-> <<>>, entries |-> <<>>]
InitBootOff ==
    /\ cfg = [AsyncIndex |-> FALSE, BasePath |-> DataDir, IndexPath |-> OutsideIndex]
    /\ boot = BootOff
    /\ bulk = BulkOff
    /\ bw = [w \in Workers |-> BwIdle]

SyIdle == [pc |-> "idle", dirs |-> <<>>, entries |-> <<>>, cur |-> <<>>,
           info |-> NoInfo, rec |-> NoDoc, seen |-> {},
           errs |-> <<>>, stale |-> <<>>, parses |-> 0, ret |-> None]

NoPass == [n |-> 0, ok |-> FALSE, still |-> FALSE,
           prevStill |-> FALSE, prevClean |-> FALSE]

\* A file change ends every "no file changed since" period.
Disturbed == [pass EXCEPT !.still = FALSE, !.prevStill = FALSE,
                          !.prevClean = FALSE]

InitSync ==
    /\ fs = [path \in AllPaths |-> NoFile]
    /\ clock = [path \in Paths |-> 0]
    /\ fsOps = 0
    /\ sy = SyIdle
    /\ pass = NoPass
    /\ indexedAt = [path \in AllPaths |-> {}]

\* A file is created or rewritten; its modification time is that of the
\* write, later than that of any earlier write to the path.
WriteFile(path, body) ==
    /\ fsOps < MaxFsOps
    /\ fs' = [fs EXCEPT ![path] = [mt |-> clock[path] + 1, body |-> body]]
    /\ clock' = [clock EXCEPT ![path] = @ + 1]
    /\ fsOps' = fsOps + 1
    /\ pass' = Disturbed
    /\ UNCHANGED <<sy, indexedAt>>
    /\ UNCHANGED <<poolVars, idxVars, bootVars>>

\* A file is removed.
RemoveFile(path) ==
    /\ fsOps < MaxFsOps
    /\ fs[path] # NoFile
    /\ fs' = [fs EXCEPT ![path] = NoFile]
    /\ fsOps' = fsOps + 1
    /\ pass' = Disturbed
    /\ UNCHANGED <<clock, sy, indexedAt>>
    /\ UNCHANGED <<poolVars, idxVars, bootVars>>

\* A file is moved to another directory under its name (a rename): the
\* file keeps its content and its modification time, and replaces a file
\* of that name in the directory it comes to.
MoveFile(from, to) ==
    /\ fsOps < MaxFsOps
    /\ fs[from] # NoFile
    /\ from # to /\ Base(from) = Base(to)
    /\ fs' = [fs EXCEPT ![to] = fs[from], ![from] = NoFile]
    /\ clock' = [clock EXCEPT ![to] = IF @ < fs[from].mt THEN fs[from].mt ELSE @]
    /\ fsOps' = fsOps + 1
    /\ pass' = Disturbed
    /\ UNCHANGED <<sy, indexedAt>>
    /\ UNCHANGED <<poolVars, idxVars, bootVars>>

\* syncOnce is entered: seen and errs are empty and the walk starts.  pass
\* numbers the pass and keeps what is known of its surroundings: ok, whether
\* the last pass returned nil; still, whether no file changed since this pass
\* started; prevStill, whether none changed since the pass before it
\* started; prevClean, the same with that pass having returned nil.
SyncOnceEnter ==
    /\ Running
    /\ pass.n < MaxPasses
    /\ sy' = [SyIdle EXCEPT !.pc = "walk", !.dirs = TreeDirs(cfg)]
    /\ pass' = [n |-> pass.n + 1, ok |-> FALSE, still |-> TRUE,
                prevStill |-> pass.still,
                prevClean |-> pass.still /\ pass.ok]
    /\ UNCHANGED <<fs, clock, fsOps, indexedAt>>
    /\ UNCHANGED <<poolVars, idxVars>>

\* startSyncLoop with the timer left out: the loop calls syncOnce again at
\* some time after the last call has returned.
SyncStart ==
    /\ sy.pc = "idle"
    /\ SyncOnceEnter
    /\ UNCHANGED bootVars

\* WalkDir comes to the next directory.  The callback returns SkipDir for the
\* index directory when indexUnderBase holds; otherwise the directory is
\* read and its entries are the files in it now.  When the directory cannot
\* be read the callback gets the error, appends it to errs and returns nil:
\* the walk goes on with the next directory.
WalkDir ==
    /\ Running
    /\ sy.pc = "walk" /\ sy.entries = <<>> /\ sy.dirs # <<>>
    /\ LET skip == /\ IndexUnderBase(cfg.IndexPath, cfg.BasePath)
                   /\ Join(cfg.BasePath, Head(sy.dirs)) = cfg.IndexPath
       IN  \/ /\ skip
              /\ sy' = [sy EXCEPT !.dirs = Tail(@),
                                  !.ret = None, !.info = NoInfo, !.rec = NoDoc]
              /\ faults' = faults
           \/ /\ ~skip
              /\ sy' = [sy EXCEPT
                          !.dirs = Tail(@),
                          !.entries = SelectSeq(WalkOrder,
                              LAMBDA path : path[1] = Head(sy.dirs) /\ fs[path] # NoFile),
                          !.ret = None, !.info = NoInfo, !.rec = NoDoc]
              /\ faults' = faults
           \/ /\ ~skip
              /\ faults < MaxFaults
              /\ faults' = faults + 1
              /\ sy' = [sy EXCEPT
                          !.dirs = Tail(@),
                          !.cur = <<Head(sy.dirs)>>,
                          !.errs = Append(@, <<"walk", <<Head(sy.dirs)>>>>),
                          !.ret = None, !.info = NoInfo, !.rec = NoDoc]
    /\ UNCHANGED <<fs, clock, fsOps, pass, indexedAt>>
    /\ UNCHANGED <<store, index, meta, call, calls, ixOpen, puts>>
    /\ UNCHANGED <<poolVars, bootVars>>

\* The walk callback on a file: a file whose extension is not .json is
\* passed over; otherwise the path is seen; d.Info() fails when the file is
\* gone by now; the file is skipped when its FileMeta matches; otherwise
\* indexFile is called.
Visit ==
    /\ Running
    /\ sy.pc = "walk" /\ sy.entries # <<>>
    /\ LET path == Head(sy.entries)
           seen == sy.seen \cup {path}
           info == StatOf(fs[path])
       IN  sy' = IF Ext(path) # ".json"
                   THEN [sy EXCEPT !.entries = Tail(@),
                                   !.ret = None, !.info = NoInfo, !.rec = NoDoc]
                 ELSE IF fs[path] = NoFile
                   THEN [sy EXCEPT !.entries = Tail(@), !.seen = seen, !.cur = path,
                                   !.ret = None, !.info = NoInfo, !.rec = NoDoc,
                                   !.errs = Append(@, <<"stat", path>>)]
                 ELSE IF Unchanged(meta[path], info)
                   THEN [sy EXCEPT !.entries = Tail(@), !.seen = seen, !.cur = path,
                                   !.ret = None, !.info = NoInfo, !.rec = NoDoc]
                 ELSE [sy EXCEPT !.entries = Tail(@), !.seen = seen, !.cur = path,
                                 !.ret = None, !.info = NoInfo, !.rec = NoDoc,
                                 !.pc = "if_stat", !.parses = @ + 1]
    /\ UNCHANGED <<fs, clock, fsOps, pass, indexedAt>>
    /\ UNCHANGED <<poolVars, idxVars, bootVars>>

\* indexFile: info, err := os.Stat(path)
IndexFileStat ==
    /\ Running
    /\ sy.pc = "if_stat"
    /\ sy' = IF fs[sy.cur] = NoFile
               THEN [sy EXCEPT !.pc = "walk", !.ret = "stat",
                               !.errs = Append(@, <<"stat", sy.cur>>)]
               ELSE [sy EXCEPT !.pc = "if_read", !.info = StatOf(fs[sy.cur])]
    /\ UNCHANGED <<fs, clock, fsOps, pass, indexedAt>>
    /\ UNCHANGED <<poolVars, idxVars, bootVars>>

\* indexFile in the other order: the FileMeta entry is written as soon as
\* the file is parsed, before idx.Index is called.
IndexFileReadMetaFirst ==
    /\ Running
    /\ sy.pc = "if_read"
    /\ IF fs[sy.cur] = NoFile
         THEN /\ sy' = [sy EXCEPT !.pc = "walk", !.ret = "read",
                                  !.errs = Append(@, <<"read", sy.cur>>)]
              /\ call' = call
              /\ meta' = meta
       ELSE IF fs[sy.cur].body = Garbage
         THEN /\ sy' = [sy EXCEPT !.pc = "walk", !.ret = "parse",
                                  !.errs = Append(@, <<"parse", sy.cur>>)]
              /\ call' = call
              /\ meta' = meta
       ELSE /\ sy' = [sy EXCEPT !.pc = "if_index",
                                !.rec = Unmarshal(fs[sy.cur].body)]
            /\ call' = [call EXCEPT !["sync"] =
                          EnterIndex(Base(sy.cur), Unmarshal(fs[sy.cur].body))]
            /\ meta' = [meta EXCEPT ![sy.cur] = FileMetaOf(sy.info, sy.cur)]
    /\ UNCHANGED <<fs, clock, fsOps, pass, indexedAt>>
    /\ UNCHANGED <<store, index, faults, calls, ixOpen, puts>>
    /\ UNCHANGED <<poolVars, bootVars>>

\* indexFile: os.ReadFile(path), json.Unmarshal(data, &cveRecord), and the
\* call of idx.Index(docID, cveRecord) with docID = filepath.Base(path).
IndexFileRead ==
    /\ Running
    /\ sy.pc = "if_read"
    /\ IF fs[sy.cur] = NoFile
         THEN /\ sy' = [sy EXCEPT !.pc = "walk", !.ret = "read",
                                  !.errs = Append(@, <<"read", sy.cur>>)]
              /\ call' = call
       ELSE IF fs[sy.cur].body = Garbage
         THEN /\ sy' = [sy EXCEPT !.pc = "walk", !.ret = "parse",
                                  !.errs = Append(@, <<"parse", sy.cur>>)]
              /\ call' = call
       ELSE /\ sy' = [sy EXCEPT !.pc = "if_index",
                                !.rec = Unmarshal(fs[sy.cur].body)]
            /\ call' = [call EXCEPT !["sync"] =
                          EnterIndex(Base(sy.cur), Unmarshal(fs[sy.cur].body))]
    /\ UNCHANGED <<fs, clock, fsOps, pass, indexedAt>>
    /\ UNCHANGED <<store, index, meta, faults, calls, ixOpen, puts>>
    /\ UNCHANGED <<poolVars, bootVars>>

\* indexFile goes on to SetFileMeta whatever idx.Index returned.
AfterIndexIgnoreErr(err) == "if_setmeta"

\* syncOnce gives up the walk at the first file that fails to index and goes
\* straight to reconciliation.
AfterIndexStopWalk(err) == IF err = "nil" THEN "if_setmeta" ELSE "rec"

\* indexFile: if err := idx.Index(docID, cveRecord); err != nil { return ... }
AfterIndex(err) == IF err = "nil" THEN "if_setmeta" ELSE "walk"

\* indexFile: idx.Index has returned.
IndexFileIndexed ==
    /\ Running
    /\ sy.pc = "if_index" /\ call["sync"].pc = "ret"
    /\ LET err == call["sync"].err IN
         /\ sy' = [sy EXCEPT
                     !.pc = AfterIndex(err),
                     !.ret = IF err = "nil" THEN None ELSE "index",
                     !.errs = IF err = "nil" THEN @
                              ELSE Append(@, <<err, sy.cur>>)]
         /\ indexedAt' = IF err = "nil"
                           THEN [indexedAt EXCEPT ![sy.cur] =
                                   @ \cup {FileMetaOf(sy.info, sy.cur)}]
                           ELSE indexedAt
    /\ call' = [call EXCEPT !["sync"] = IdleFrame]
    /\ UNCHANGED <<fs, clock, fsOps, pass>>
    /\ UNCHANGED <<store, index, meta, faults, calls, ixOpen, puts>>
    /\ UNCHANGED <<poolVars, bootVars>>

\* indexFile: idx.SetFileMeta(path, meta) with the ModTime and Size os.Stat
\* returned; on error return "failed to store metadata".
IndexFileSetMeta ==
    /\ Running
    /\ sy.pc = "if_setmeta"
    /\ \/ /\ meta' = [meta EXCEPT ![sy.cur] = FileMetaOf(sy.info, sy.cur)]
          /\ sy' = [sy EXCEPT !.pc = "walk", !.ret = "nil"]
          /\ faults' = faults
       \/ /\ faults < MaxFaults
          /\ faults' = faults + 1
          /\ meta' = meta
          /\ sy' = [sy EXCEPT !.pc = "walk", !.ret = "meta",
                              !.errs = Append(@, <<"meta", sy.cur>>)]
    /\ UNCHANGED <<fs, clock, fsOps, pass, indexedAt>>
    /\ UNCHANGED <<store, index, call, calls, ixOpen, puts>>
    /\ UNCHANGED <<poolVars, bootVars>>

\* syncOnce without the os.Stat of unseen paths: every entry whose path was
\* not seen is stale.
ScanNoStat ==
    /\ Running
    /\ sy.pc = "walk" /\ sy.entries = <<>> /\ sy.dirs = <<>>
    /\ LET paths == SelectSeq(WalkOrder, LAMBDA path :
                        /\ meta[path] # NoMeta
                        /\ path \notin sy.seen)
       IN  sy' = [sy EXCEPT
                    !.pc = "rec", !.ret = None, !.info = NoInfo, !.rec = NoDoc,
                    !.cur = <<>>,
                    !.stale = [i \in 1..Len(paths) |->
                                 [path |-> paths[i], meta |-> meta[paths[i]]]]]
    /\ UNCHANGED <<fs, clock, fsOps, pass, indexedAt>>
    /\ UNCHANGED <<poolVars, idxVars, bootVars>>

\* syncOnce: ForEachFileMeta collects as stale every entry whose path was not
\* seen and whose file os.Stat no longer finds.
Scan ==
    /\ Running
    /\ sy.pc = "walk" /\ sy.entries = <<>> /\ sy.dirs = <<>>
    /\ LET paths == SelectSeq(WalkOrder, LAMBDA path :
                        /\ meta[path] # NoMeta
                        /\ path \notin sy.seen
                        /\ fs[path] = NoFile)
       IN  sy' = [sy EXCEPT
                    !.pc = "rec", !.ret = None, !.info = NoInfo, !.rec = NoDoc,
                    !.cur = <<>>,
                    !.stale = [i \in 1..Len(paths) |->
                                 [path |-> paths[i], meta |-> meta[paths[i]]]]]
    /\ UNCHANGED <<fs, clock, fsOps, pass, indexedAt>>
    /\ UNCHANGED <<poolVars, idxVars, bootVars>>

\* syncOnce: for the next stale entry, idx.Delete(st.meta.DocID) is called.
ReconcileDelete ==
    /\ Running
    /\ sy.pc = "rec" /\ sy.stale # <<>>
    /\ call' = [call EXCEPT !["sync"] = EnterDelete(Head(sy.stale).meta.DocID)]
    /\ sy' = [sy EXCEPT !.pc = "rec_del"]
    /\ UNCHANGED <<fs, clock, fsOps, pass, indexedAt>>
    /\ UNCHANGED <<store, index, meta, faults, calls, ixOpen, puts>>
    /\ UNCHANGED <<poolVars, bootVars>>

\* syncOnce: idx.Delete has returned; its error is appended to errs.
ReconcileDeleted ==
    /\ Running
    /\ sy.pc = "rec_del" /\ call["sync"].pc = "ret"
    /\ sy' = [sy EXCEPT
                !.pc = "rec_meta",
                !.errs = IF call["sync"].err = "nil" THEN @
                         ELSE Append(@, <<call["sync"].err, Head(sy.stale).path>>)]
    /\ call' = [call EXCEPT !["sync"] = IdleFrame]
    /\ UNCHANGED <<fs, clock, fsOps, pass, indexedAt>>
    /\ UNCHANGED <<store, index, meta, faults, calls, ixOpen, puts>>
    /\ UNCHANGED <<poolVars, bootVars>>

\* syncOnce: idx.DeleteFileMeta(st.path), whatever idx.Delete returned.
ReconcileDeleteMeta ==
    /\ Running
    /\ sy.pc = "rec_meta"
    /\ \/ /\ meta' = [meta EXCEPT ![Head(sy.stale).path] = NoMeta]
          /\ sy' = [sy EXCEPT !.pc = "rec", !.stale = Tail(@)]
          /\ faults' = faults
       \/ /\ faults < MaxFaults
          /\ faults' = faults + 1
          /\ meta' = meta
          /\ sy' = [sy EXCEPT !.pc = "rec", !.stale = Tail(@),
                              !.errs = Append(@, <<"delete meta", Head(sy.stale).path>>)]
    /\ UNCHANGED <<fs, clock, fsOps, pass, indexedAt>>
    /\ UNCHANGED <<store, index, call, calls, ixOpen, puts>>
    /\ UNCHANGED <<poolVars, bootVars>>

\* syncOnce: return errors.Join(errs...), nil when errs is empty.
SyncOnceReturn ==
    /\ Running
    /\ sy.pc = "rec" /\ sy.stale = <<>>
    /\ sy' = [SyIdle EXCEPT !.errs = sy.errs, !.parses = sy.parses]
    /\ pass' = [pass EXCEPT !.ok = (sy.errs = <<>>)]
    /\ UNCHANGED <<fs, clock, fsOps, indexedAt>>
    /\ UNCHANGED <<poolVars, idxVars>>

\* startSyncLoop with the timer left out: syncOnce returns to the loop.
SyncReturn ==
    /\ SyncOnceReturn
    /\ UNCHANGED bootVars

(***************************************************************************)
(* Startup: main, buildIndex, runIndexing and startSyncLoop                *)
(***************************************************************************)

\* What the program finds when it starts: prev, the paths an earlier run
\* has indexed, and now, the CVE files on disk.  Either this is the first run
\* over two files, or an earlier run has indexed both and one of them was
\* removed since, the other one left as it was.
PrevFile == [mt |-> 1, body |-> Marshal([title |-> "first-title", pub |-> 1])]
Starts == {[prev |-> {}, now |-> {<<"a", "A.json">>, <<"a", "B.json">>}],
           [prev |-> {<<"a", "A.json">>, <<"a", "B.json">>},
            now |-> {<<"a", "A.json">>}]}

\* The state when main starts, after NewIndex has opened the store and the
\* index: bleve has its index_meta.json in the index directory.  With
\* AsyncIndex the runs start over the tree in /data with one file on disk.
InitBoot ==
    /\ cfg \in Configs
    /\ boot = BootOff
    /\ bulk = BulkOff
    /\ bw = [w \in Workers |-> BwIdle]
    /\ \E st \in Starts :
       LET prev == st.prev
           now == st.now
       IN
         /\ cfg.AsyncIndex => (cfg.BasePath = DataDir /\ Cardinality(now) = 1)
         /\ store = [id \in DocIDs |->
                       IF \E path \in prev : Base(path) = id
                         THEN PrevFile.body ELSE NoBytes]
         /\ index = [id \in DocIDs |->
                       IF \E path \in prev : Base(path) = id
                         THEN Unmarshal(PrevFile.body) ELSE NoDoc]
         /\ meta = [path \in AllPaths |->
                      IF path \in prev
                        THEN FileMetaOf(StatOf(PrevFile), path) ELSE NoMeta]
         /\ indexedAt = [path \in AllPaths |->
                           IF path \in prev
                             THEN {FileMetaOf(StatOf(PrevFile), path)} ELSE {}]
         /\ fs = [path \in AllPaths |->
                    IF path \in now THEN PrevFile
                    ELSE IF path = NotesFile THEN [mt |-> 1, body |-> Garbage]
                    ELSE IF path = IndexMetaFile /\ IndexInTree(cfg)
                      THEN [mt |-> 1, body |-> IndexMetaBody]
                    ELSE NoFile]
         /\ clock = [path \in Paths |-> IF path \in prev \cup now THEN 1 ELSE 0]
    /\ ixOpen = TRUE
    /\ puts = [id \in DocIDs |-> [acked |-> index[id], written |-> index[id]]]
    /\ call = [c \in Callers |-> IdleFrame]
    /\ faults = 0
    /\ calls = 0
    /\ fsOps = 0
    /\ sy = SyIdle
    /\ pass = NoPass

\* The working directory of the process, for filepath.Abs.
WorkDir == Root

\* The names of a path string, and filepath.IsAbs.
Names(p) == SelectSeq(p, LAMBDA x : x # Sep)
IsAbs(p) == p # <<>> /\ p[1] = Sep

\* filepath.Clean: "." names are dropped, a ".." name takes the name before
\* it away (at the root it is dropped, in a relative path with nothing
\* before it is kept), repeated and trailing separators go.
RECURSIVE Resolve(_, _, _)
Resolve(names, stack, rooted) ==
    IF names = <<>> THEN stack
    ELSE IF Head(names) = "." THEN Resolve(Tail(names), stack, rooted)
    ELSE IF Head(names) # ".." THEN Resolve(Tail(names), Append(stack, Head(names)), rooted)
    ELSE IF stack # <<>> /\ stack[Len(stack)] # ".."
      THEN Resolve(Tail(names), SubSeq(stack, 1, Len(stack) - 1), rooted)
    ELSE IF rooted THEN Resolve(Tail(names), stack, rooted)
    ELSE Resolve(Tail(names), Append(stack, ".."), rooted)

RECURSIVE JoinNames(_)
JoinNames(names) ==
    IF Len(names) <= 1 THEN names
    ELSE <<Head(names), Sep>> \o JoinNames(Tail(names))

Clean(p) ==
    LET names == Resolve(Names(p), <<>>, IsAbs(p))
    IN  IF IsAbs(p) THEN Root \o JoinNames(names)
        ELSE IF names = <<>> THEN <<".">>
        ELSE JoinNames(names)

\* filepath.Abs: a relative path is joined to the working directory.
Abs(p) == IF IsAbs(p) THEN Clean(p) ELSE Clean(WorkDir \o <<Sep>> \o p)

\* buildIndex: normalizePath
NormalizePath(p) ==
    IF p = <<>> THEN <<>>
    ELSE IF IsAbs(Clean(p)) THEN Clean(p)
    ELSE Abs(Clean(p))

\* BasePath and IndexPath as a configuration can give them: absolute or
\* relative, with trailing separators, "." and ".." names, or empty.
RawBasePaths ==
    {<<>>, <<Sep>>, <<".">>, <<"data">>, <<Sep, "data">>, <<Sep, "data", Sep>>,
     <<Sep, "data", Sep, "..", Sep, "data">>}
RawIndexPaths ==
    {<<>>, <<Sep>>, <<".">>, <<"data">>, <<Sep, "data">>, <<Sep, "data", Sep>>,
     <<Sep, "data", Sep, ".">>, <<Sep, "data", Sep, "a", Sep, "..">>,
     <<IndexDir>>, <<Sep, "data", Sep, IndexDir>>, OutsideIndex}

\* The state when main calls buildIndex with the configuration as read;
\* raw remembers the IndexPath as configured.
InitConfig ==
    /\ cfg \in [AsyncIndex : BOOLEAN, BasePath : RawBasePaths, IndexPath : RawIndexPaths]
    /\ boot = [BootOff EXCEPT !.main = "config", !.raw = cfg.IndexPath]
    /\ bulk = BulkOff
    /\ bw = [w \in Workers |-> BwIdle]

\* A buildIndex that takes the index path as normalized, wherever it points.
BuildIndexPathsNoMove ==
    /\ boot.main = "config"
    /\ NormalizePath(cfg.BasePath) # <<>>
    /\ cfg' = [cfg EXCEPT !.BasePath = NormalizePath(cfg.BasePath),
                          !.IndexPath = IF NormalizePath(cfg.IndexPath) = <<>>
                                          THEN Join(NormalizePath(cfg.BasePath), IndexDir)
                                          ELSE NormalizePath(cfg.IndexPath)]
    /\ boot' = [boot EXCEPT !.main = "build"]
    /\ UNCHANGED <<bulk, bw>>
    /\ UNCHANGED <<poolVars, idxVars, syncVars>>

\* buildIndex, up to config.IndexPath = indexPath: both paths are
\* normalized; an empty BasePath or one os.Stat fails on ends the process
\* (log.Fatalf); an empty index path becomes BasePath/.index, and so does
\* one that equals BasePath.
BuildIndexPaths ==
    /\ Running
    /\ boot.main = "config"
    /\ LET base == NormalizePath(cfg.BasePath)
           normalized == NormalizePath(cfg.IndexPath)
           defaulted == IF normalized = <<>> THEN Join(base, IndexDir) ELSE normalized
           indexPath == IF defaulted = base THEN Join(base, IndexDir) ELSE defaulted
       IN  \/ /\ base = <<>>
              /\ cfg' = cfg
              /\ bulk' = [bulk EXCEPT !.pc = "fatal"]
              /\ boot' = boot
              /\ faults' = faults
           \/ /\ base # <<>> /\ faults < MaxFaults
              /\ faults' = faults + 1
              /\ cfg' = [cfg EXCEPT !.BasePath = base]
              /\ bulk' = [bulk EXCEPT !.pc = "fatal"]
              /\ boot' = boot
           \/ /\ base # <<>>
              /\ cfg' = [cfg EXCEPT !.BasePath = base, !.IndexPath = indexPath]
              /\ boot' = [boot EXCEPT !.main = "build"]
              /\ bulk' = bulk
              /\ faults' = faults
    /\ bw' = bw
    /\ UNCHANGED <<store, index, ixOpen, puts, meta, call, calls>>
    /\ UNCHANGED <<poolVars, syncVars>>

\* main: idx := buildIndex(&config).  buildIndex starts runIndexing in a
\* goroutine of its own and returns when AsyncIndex is set, and calls it
\* otherwise.
MainBuildIndex ==
    /\ boot.main = "build"
    /\ boot' = [boot EXCEPT !.main = IF cfg.AsyncIndex THEN "spawn" ELSE "indexing"]
    /\ bulk' = [pc |-> "walk", dirs |-> TreeDirs(cfg), entries |-> <<>>]
    /\ UNCHANGED <<cfg, bw>>
    /\ UNCHANGED <<poolVars, idxVars, syncVars>>

\* buildIndex without AsyncIndex: runIndexing has returned.
MainIndexed ==
    /\ Running
    /\ boot.main = "indexing" /\ bulk.pc = "done"
    /\ boot' = [boot EXCEPT !.main = "spawn"]
    /\ UNCHANGED <<cfg, bulk, bw>>
    /\ UNCHANGED <<poolVars, idxVars, syncVars>>

\* main: go startSyncLoop(ctx, ...); main goes on to serve requests and
\* never cancels ctx.  The loop starts with a call of syncOnce.
MainStartLoop ==
    /\ Running
    /\ boot.main = "spawn"
    /\ boot' = [boot EXCEPT !.main = "serve", !.loop = "sync"]
    /\ UNCHANGED <<cfg, bulk, bw>>
    /\ UNCHANGED <<poolVars, idxVars, syncVars>>

\* runIndexing: filepath.Walk comes to the next directory.  The callback
\* returns SkipDir for the index directory when indexUnderBase holds;
\* otherwise the directory is read.  When it cannot be read the callback
\* returns the error, the walk ends, pool.Stop() waits for the workers and
\* log.Fatalf ends the process.
BulkWalkDir ==
    /\ Running
    /\ bulk.pc = "walk" /\ bulk.entries = <<>> /\ bulk.dirs # <<>>
    /\ LET skip == /\ IndexUnderBase(cfg.IndexPath, cfg.BasePath)
                   /\ Join(cfg.BasePath, Head(bulk.dirs)) = cfg.IndexPath
       IN  \/ /\ skip
              /\ bulk' = [bulk EXCEPT !.dirs = Tail(@)]
              /\ faults' = faults
           \/ /\ ~skip
              /\ bulk' = [bulk EXCEPT
                            !.dirs = Tail(@),
                            !.entries = SelectSeq(WalkOrder,
                                LAMBDA path : path[1] = Head(bulk.dirs) /\ fs[path] # NoFile)]
              /\ faults' = faults
           \/ /\ ~skip
              /\ faults < MaxFaults
              /\ \A w \in Workers : bw[w].pc = "idle"
              /\ faults' = faults + 1
              /\ bulk' = [bulk EXCEPT !.pc = "fatal"]
    /\ UNCHANGED <<cfg, boot, bw>>
    /\ UNCHANGED <<store, index, meta, call, calls, ixOpen, puts>>
    /\ UNCHANGED <<poolVars, syncVars>>

\* runIndexing: the walk callback on a file that is no .json file.
BulkPassOver ==
    /\ Running
    /\ bulk.pc = "walk" /\ bulk.entries # <<>>
    /\ Ext(Head(bulk.entries)) # ".json"
    /\ bulk' = [bulk EXCEPT !.entries = Tail(@)]
    /\ UNCHANGED <<cfg, boot, bw>>
    /\ UNCHANGED <<poolVars, idxVars, syncVars>>

\* runIndexing: the walk callback on a .json file: pool.Submit hands the
\* task to a worker that is waiting for one (the task channel has no
\* buffer), and the worker calls indexFile(idx, task.FilePath).
BulkSubmit(w) ==
    /\ Running
    /\ bulk.pc = "walk" /\ bulk.entries # <<>>
    /\ Ext(Head(bulk.entries)) = ".json"
    /\ bw[w].pc = "idle"
    /\ bulk' = [bulk EXCEPT !.entries = Tail(@)]
    /\ bw' = [bw EXCEPT ![w] = [pc |-> "if_stat", path |-> Head(bulk.entries),
                                info |-> NoInfo]]
    /\ UNCHANGED <<cfg, boot>>
    /\ UNCHANGED <<poolVars, idxVars, syncVars>>

\* indexFile in a worker: info, err := os.Stat(path)
BulkFileStat(w) ==
    /\ Running
    /\ bw[w].pc = "if_stat"
    /\ bw' = [bw EXCEPT ![w] =
                IF fs[bw[w].path] = NoFile THEN BwIdle
                ELSE [@ EXCEPT !.pc = "if_read", !.info = StatOf(fs[bw[w].path])]]
    /\ UNCHANGED <<cfg, boot, bulk>>
    /\ UNCHANGED <<poolVars, idxVars, syncVars>>

\* indexFile in a worker: os.ReadFile(path), json.Unmarshal(data, &cveRecord)
\* and the call of idx.Index(docID, cveRecord).
BulkFileRead(w) ==
    /\ Running
    /\ bw[w].pc = "if_read"
    /\ LET path == bw[w].path IN
         IF fs[path] = NoFile \/ fs[path].body = Garbage
           THEN /\ bw' = [bw EXCEPT ![w] = BwIdle]
                /\ call' = call
           ELSE /\ bw' = [bw EXCEPT ![w].pc = "if_index"]
                /\ call' = [call EXCEPT ![BulkCaller(w)] =
                              EnterIndex(Base(path), Unmarshal(fs[path].body))]
    /\ UNCHANGED <<cfg, boot, bulk>>
    /\ UNCHANGED <<store, index, meta, faults, calls, ixOpen, puts>>
    /\ UNCHANGED <<poolVars, syncVars>>

\* indexFile in a worker: idx.Index has returned; on error indexFile returns.
BulkFileIndexed(w) ==
    /\ Running
    /\ bw[w].pc = "if_index" /\ call[BulkCaller(w)].pc = "ret"
    /\ LET err == call[BulkCaller(w)].err IN
         /\ bw' = [bw EXCEPT ![w] = IF AfterIndex(err) = "if_setmeta"
                                      THEN [@ EXCEPT !.pc = "if_setmeta"]
                                      ELSE BwIdle]
         /\ indexedAt' = IF err = "nil"
                           THEN [indexedAt EXCEPT ![bw[w].path] =
                                   @ \cup {FileMetaOf(bw[w].info, bw[w].path)}]
                           ELSE indexedAt
    /\ call' = [call EXCEPT ![BulkCaller(w)] = IdleFrame]
    /\ UNCHANGED <<cfg, boot, bulk>>
    /\ UNCHANGED <<store, index, meta, faults, calls, ixOpen, puts>>
    /\ UNCHANGED <<fs, clock, fsOps, sy, pass>>
    /\ UNCHANGED poolVars

\* indexFile in a worker: idx.SetFileMeta(path, meta); the worker reports
\* the result and waits for the next task.
BulkFileSetMeta(w) ==
    /\ Running
    /\ bw[w].pc = "if_setmeta"
    /\ \/ /\ meta' = [meta EXCEPT ![bw[w].path] = FileMetaOf(bw[w].info, bw[w].path)]
          /\ faults' = faults
       \/ /\ faults < MaxFaults
          /\ faults' = faults + 1
          /\ meta' = meta
    /\ bw' = [bw EXCEPT ![w] = BwIdle]
    /\ UNCHANGED <<cfg, boot, bulk>>
    /\ UNCHANGED <<store, index, call, calls, ixOpen, puts>>
    /\ UNCHANGED <<poolVars, syncVars>>

\* runIndexing: the walk is over; pool.Stop() returns when every worker has
\* finished its task, the errors are logged and runIndexing returns.
BulkStop ==
    /\ Running
    /\ bulk.pc = "walk" /\ bulk.entries = <<>> /\ bulk.dirs = <<>>
    /\ \A w \in Workers : bw[w].pc = "idle"
    /\ bulk' = [bulk EXCEPT !.pc = "done"]
    /\ UNCHANGED <<cfg, boot, bw>>
    /\ UNCHANGED <<poolVars, idxVars, syncVars>>

\* startSyncLoop: the loop calls syncOnce.  active counts the calls of
\* syncOnce that have not returned.
LoopSync ==
    /\ boot.loop = "sync"
    /\ SyncOnceEnter
    /\ boot' = [boot EXCEPT !.loop = "pass", !.active = @ + 1]
    /\ UNCHANGED <<cfg, bulk, bw>>

\* startSyncLoop: syncOnce returns and the loop waits in the select.
LoopReturned ==
    /\ boot.loop = "pass"
    /\ SyncOnceReturn
    /\ boot' = [boot EXCEPT !.loop = "select", !.active = @ - 1]
    /\ UNCHANGED <<cfg, bulk, bw>>

\* Every tick starts a pass of its own, whether or not one is running.
LoopTickAnywhere ==
    /\ Running
    /\ boot.tick
    /\ \/ /\ boot.loop = "select"
          /\ boot' = [boot EXCEPT !.loop = "sync", !.tick = FALSE]
          /\ UNCHANGED <<poolVars, idxVars, syncVars>>
       \/ /\ boot.loop = "pass"
          /\ SyncOnceEnter
          /\ boot' = [boot EXCEPT !.tick = FALSE, !.active = @ + 1]
    /\ UNCHANGED <<cfg, bulk, bw>>

\* startSyncLoop: case <-ticker.C in the select: the loop takes the tick and
\* goes round.  (main never cancels ctx: the other case is never taken.)
LoopTick ==
    /\ Running
    /\ boot.loop = "select" /\ boot.tick
    /\ boot' = [boot EXCEPT !.loop = "sync", !.tick = FALSE]
    /\ UNCHANGED <<cfg, bulk, bw>>
    /\ UNCHANGED <<poolVars, idxVars, syncVars>>

\* The ticker fires: ticker.C holds one tick, a tick that finds it full is
\* dropped.
Tick ==
    /\ Running
    /\ boot.loop # "off" /\ ~boot.tick
    /\ boot' = [boot EXCEPT !.tick = TRUE]
    /\ UNCHANGED <<cfg, bulk, bw>>
    /\ UNCHANGED <<poolVars, idxVars, syncVars>>

NextPool ==
    \/ Start
    \/ \E s \in Submitters, t \in Tasks : SubmitCall(s, t)
    \/ \E s \in Submitters, w \in Workers : SubmitSend(s, w)
    \/ \E s \in Submitters : SubmitSendClosed(s)
    \/ \E s \in Submitters : SubmitCtxDone(s)
    \/ \E s \in Submitters : SubmitResult(s)
    \/ \E w \in Workers : WorkerExit(w)
    \/ \E w \in Workers : WorkerProcess(w)
    \/ \E w \in Workers : WorkerResult(w)
    \/ StopCancel
    \/ StopCloseTasks
    \/ StopCloseResults
    \/ RangeEnds

(***************************************************************************)
(* Queries: Index.ListLatest, Index.Get and files.CollectLatest            *)
(***************************************************************************)

\* Return of a query: the frame of the caller holds the argument, the
\* branch taken, the value returned and the error.  A caller makes one query
\* of the state it finds.
QueryFrame(op, arg, branch, out, err) ==
    [IdleFrame EXCEPT !.pc = "ret", !.op = op, !.arg = arg,
                      !.steps = branch, !.out = out, !.err = err]

ErrIterate == "failed to iterate store"

\* Index.ListLatest(limit).  idx.index.Search(req) succeeds and the hits are
\* fetched from the store, the frame keeping the hits (todo) and after
\* "sorted" the hits whose stored value did not unmarshal (a value can be
\* any JSON: Index.Index stores the doc interface{} it is given); or it
\* fails (a closed index always does) and Store.ForEach feeds the heap; or
\* ForEach fails as well.
ApiListLatest(limit) ==
    /\ Running
    /\ call["api"].pc = "idle"
    /\ \/ /\ ixOpen
          /\ \E hits \in SearchLatest(index, LimitOf(limit)) :
             \E broken \in SUBSET {id \in DocIDs : /\ \E i \in 1..Len(hits) : hits[i] = id
                                                   /\ store[id] # NoBytes} :
               /\ faults + Cardinality(broken) <= MaxFaults
               /\ faults' = faults + Cardinality(broken)
               /\ call' = [call EXCEPT !["api"] =
                             [QueryFrame("ListLatest", limit,
                                         <<"sorted">> \o
                                           SelectSeq(hits, LAMBDA id : id \in broken),
                                         FetchHits(store, hits, broken), "nil")
                              EXCEPT !.todo = hits]]
       \/ /\ ixOpen => faults < MaxFaults
          /\ faults' = IF ixOpen THEN faults + 1 ELSE faults
          /\ call' = [call EXCEPT !["api"] =
                        QueryFrame("ListLatest", limit, <<"fallback">>,
                                   ListLatestFallback(limit), "nil")]
       \/ /\ faults + (IF ixOpen THEN 2 ELSE 1) <= MaxFaults
          /\ faults' = faults + (IF ixOpen THEN 2 ELSE 1)
          /\ call' = [call EXCEPT !["api"] =
                        QueryFrame("ListLatest", limit, <<"fallback">>, <<>>,
                                   ErrIterate)]
    /\ UNCHANGED <<store, index, ixOpen, puts, meta, calls>>
    /\ UNCHANGED <<poolVars, syncVars, bootVars>>

ErrClose == "failed to close index"
ErrRemove == "failed to remove existing index"
ErrCreate == "failed to create new index"
ErrUnmarshal == "failed to unmarshal document"

\* A caller outside the sync engine calls Index.Reindex().
ApiReindex ==
    /\ Running
    /\ call["api"].pc \in {"idle", "ret"} /\ calls < MaxCalls
    /\ call' = [call EXCEPT !["api"] =
                  [IdleFrame EXCEPT !.pc = "re_reset", !.op = "Reindex",
                                    !.pre = [store |-> store, index |-> index]]]
    /\ calls' = calls + 1
    /\ UNCHANGED <<store, index, ixOpen, puts, meta, faults>>
    /\ UNCHANGED <<poolVars, syncVars, bootVars>>

\* A Reindex that keeps the entries of the index it finds.
ReindexResetKeep(c) ==
    /\ call[c].pc = "re_reset"
    /\ ixOpen' = TRUE
    /\ LET keys == SelectSeq(KeyOrder, LAMBDA k : store[k] # NoBytes)
       IN  call' = [call EXCEPT ![c].pc = IF keys = <<>> THEN "ret" ELSE "re_each",
                                ![c].todo = keys,
                                ![c].pre = [@ EXCEPT !.store = store]]
    /\ UNCHANGED <<store, index, puts, meta, faults, calls>>
    /\ UNCHANGED <<poolVars, syncVars, bootVars>>

\* Index.Reindex: idx.index.Close(), os.RemoveAll(idx.path), bleve.New(...)
\* and idx.index = index: the index is a new, empty one, and Store.ForEach
\* opens its read transaction on the store as it is.  Each of the three can
\* fail; Reindex then returns the error and idx.index is the closed index:
\* with its entries when nothing was removed, without them otherwise.
ReindexReset(c) ==
    /\ Running
    /\ call[c].pc = "re_reset"
    /\ \/ /\ index' = [id \in DocIDs |-> NoDoc]
          /\ ixOpen' = TRUE
          /\ faults' = faults
          /\ LET keys == SelectSeq(KeyOrder, LAMBDA k : store[k] # NoBytes)
             IN  call' = [call EXCEPT
                            ![c].pc = IF keys = <<>> THEN "ret" ELSE "re_each",
                            ![c].todo = keys,
                            ![c].pre = [@ EXCEPT !.store = store]]
       \/ /\ faults < MaxFaults
          /\ faults' = faults + 1
          /\ ixOpen' = FALSE
          /\ \E err \in {ErrClose, ErrRemove, ErrCreate} :
               /\ index' = IF err = ErrCreate THEN [id \in DocIDs |-> NoDoc] ELSE index
               /\ call' = [call EXCEPT ![c].pc = "ret", ![c].err = err]
    /\ UNCHANGED <<store, puts, meta, calls>>
    /\ UNCHANGED <<poolVars, syncVars, bootVars>>

\* Index.Reindex, the callback of Store.ForEach on the next key: the bytes
\* are unmarshalled and the document is written to the index.  When either
\* fails the callback returns the error, ForEach stops and Reindex returns
\* it.  After the last key Reindex returns nil.
ReindexEach(c) ==
    /\ Running
    /\ call[c].pc = "re_each"
    /\ LET k == Head(call[c].todo) IN
       \/ /\ ixOpen
          /\ index' = BleveIndex(index, k, Unmarshal(call[c].pre.store[k]))
          /\ faults' = faults
          /\ call' = [call EXCEPT
                        ![c].pc = IF Tail(call[c].todo) = <<>> THEN "ret" ELSE "re_each",
                        ![c].todo = Tail(@),
                        ![c].steps = Append(@, k)]
       \/ /\ faults < MaxFaults
          /\ faults' = faults + 1
          /\ index' = index
          /\ \E err \in {ErrUnmarshal, ErrIndexPut} :
               call' = [call EXCEPT ![c].pc = "ret", ![c].err = err]
       \/ /\ ~ixOpen
          /\ faults' = faults
          /\ index' = index
          /\ call' = [call EXCEPT ![c].pc = "ret", ![c].err = ErrIndexPut]
    /\ UNCHANGED <<store, ixOpen, puts, meta, calls>>
    /\ UNCHANGED <<poolVars, syncVars, bootVars>>

\* A Get that serves the document the index holds.
ApiGetFromIndex(id) ==
    /\ Running
    /\ call["api"].pc \in {"idle", "ret"} /\ calls < MaxCalls
    /\ call' = [call EXCEPT !["api"] =
                  [QueryFrame("Get", 0, <<>>,
                              IF index[id] = NoDoc THEN NoBytes ELSE Marshal(index[id]),
                              IF index[id] = NoDoc THEN "not found" ELSE "nil")
                   EXCEPT !.id = id]]
    /\ calls' = calls + 1
    /\ UNCHANGED <<store, index, ixOpen, puts, meta, faults>>
    /\ UNCHANGED <<poolVars, syncVars, bootVars>>

\* Index.Get(id): idx.store.Get(id), the stored bytes or a not-found error.
\* The index is not consulted.
ApiGet(id) ==
    /\ Running
    /\ call["api"].pc \in {"idle", "ret"} /\ calls < MaxCalls
    /\ call' = [call EXCEPT !["api"] =
                  [QueryFrame("Get", 0, <<>>, StoreGet(store, id).data,
                              StoreGet(store, id).err) EXCEPT !.id = id]]
    /\ calls' = calls + 1
    /\ UNCHANGED <<store, index, ixOpen, puts, meta, faults>>
    /\ UNCHANGED <<poolVars, syncVars, bootVars>>

\* The files below root in the order filepath.WalkDir comes to them.
WalkFiles == SelectSeq(WalkOrder, LAMBDA path : fs[path] # NoFile)

\* files.ReadFile(path): os.ReadFile, then json.Unmarshal into a CVERecord.
\* unreadable holds the files os.ReadFile fails on.
ReadFile(path, unreadable) ==
    IF path \in unreadable THEN [err |-> "read file", rec |-> NoDoc]
    ELSE IF fs[path].body = Garbage THEN [err |-> "unmarshal", rec |-> NoDoc]
    ELSE [err |-> "nil", rec |-> Unmarshal(fs[path].body)]

\* files.CollectLatest, the callback TraverseDir calls for every file: a file
\* ReadFile fails on is skipped; a record is pushed, and the oldest record is
\* popped when the heap holds more than limit records.  (CollectScanNoPop: a
\* callback that never pops.)
RECURSIVE CollectScanNoPop(_, _, _, _)
CollectScanNoPop(paths, h, limit, unreadable) ==
    IF paths = <<>> THEN h
    ELSE LET read == ReadFile(Head(paths), unreadable)
         IN  CollectScanNoPop(Tail(paths),
                              IF read.err # "nil" THEN h ELSE HeapPush(h, read.rec),
                              limit, unreadable)

RECURSIVE CollectScan(_, _, _, _)
CollectScan(paths, h, limit, unreadable) ==
    IF paths = <<>> THEN h
    ELSE LET read == ReadFile(Head(paths), unreadable)
             pushed == HeapPush(h, read.rec)
         IN  IF read.err # "nil"
               THEN CollectScan(Tail(paths), h, limit, unreadable)
               ELSE CollectScan(Tail(paths),
                                IF Len(pushed) > limit THEN HeapPop(pushed) ELSE pushed,
                                limit, unreadable)

\* files.CollectLatest(root, limit) for root = BasePath: the heap is drained
\* in ascending order and reversed.
CollectLatest(limit, unreadable) ==
    Reverse(CollectScan(WalkFiles, <<>>, LimitOf(limit), unreadable))

\* A call of files.CollectLatest(BasePath, limit).  Every file can be read;
\* or one cannot; or filepath.WalkDir reports an error for a directory and
\* the call returns it.
ApiCollectLatest(limit) ==
    /\ Running
    /\ call["api"].pc = "idle"
    /\ \/ /\ call' = [call EXCEPT !["api"] =
                        QueryFrame("CollectLatest", limit, <<"every file read">>,
                                   CollectLatest(limit, {}), "nil")]
          /\ faults' = faults
       \/ /\ faults < MaxFaults
          /\ faults' = faults + 1
          /\ \E path \in {p \in AllPaths : fs[p] # NoFile} :
               call' = [call EXCEPT !["api"] =
                          QueryFrame("CollectLatest", limit, <<"unreadable", path>>,
                                     CollectLatest(limit, {path}), "nil")]
       \/ /\ faults < MaxFaults
          /\ faults' = faults + 1
          /\ call' = [call EXCEPT !["api"] =
                        QueryFrame("CollectLatest", limit, <<"walk failed">>,
                                   <<>>, "walk error")]
    /\ UNCHANGED <<store, index, ixOpen, puts, meta, calls>>
    /\ UNCHANGED <<poolVars, syncVars, bootVars>>

\* Limits the queries are called with: zero and less, small ones, and 50.
Limits == (-1 .. MaxLimit) \cup {50}

\* The record a query state holds for a publish date, and no record for 0.
DatedDoc(pub) == IF pub = 0 THEN NoDoc ELSE [title |-> "first-title", pub |-> pub]
DatedBytes(pub) == IF pub = 0 THEN NoBytes ELSE Marshal(DatedDoc(pub))

\* Store and index as calls of Index.Index and Index.Delete leave them:
\* every id with a record or none, and store and index differing on as
\* many ids as writes can have failed.
InitLatest ==
    /\ \E sp \in [DocIDs -> Pubs \cup {0}], ip \in [DocIDs -> Pubs \cup {0}] :
         /\ Cardinality({id \in DocIDs : sp[id] # ip[id]}) <= MaxFaults
         /\ store = [id \in DocIDs |-> DatedBytes(sp[id])]
         /\ index = [id \in DocIDs |-> DatedDoc(ip[id])]
         /\ puts = [id \in DocIDs |->
                      [acked |-> IF sp[id] = ip[id] THEN DatedDoc(sp[id]) ELSE NoDoc,
                       written |-> DatedDoc(sp[id])]]
    /\ ixOpen = TRUE
    /\ meta = [path \in AllPaths |-> NoMeta]
    /\ call = [c \in Callers |-> IdleFrame]
    /\ faults = 0
    /\ calls = 0

\* The directory of TestCollectLatest: five files published 0, 1, 2, 3 and
\* 4 hours before a moment 5: the dates 5, 4, 3, 2 and 1.
FiveFiles ==
    [path \in AllPaths |->
       [mt |-> 1,
        body |-> Marshal([title |-> "first-title",
                          pub |-> 6 - (CHOOSE i \in 1..Len(WalkOrder) :
                                          WalkOrder[i] = path)])]]

\* A source tree: every path with no file, a file that does not parse or a
\* record; or the directory of TestCollectLatest.
InitFiles ==
    /\ \/ fs \in [AllPaths -> {NoFile, [mt |-> 1, body |-> Garbage]} \cup
                               {[mt |-> 1, body |-> DatedBytes(pub)] : pub \in Pubs}]
       \/ fs = FiveFiles
    /\ clock = [path \in Paths |-> IF fs[path] = NoFile THEN 0 ELSE 1]
    /\ fsOps = 0
    /\ sy = SyIdle
    /\ pass = NoPass
    /\ indexedAt = [path \in AllPaths |-> {}]

(***************************************************************************)
(* Specifications                                                          *)
(***************************************************************************)
PoolInit == InitPool /\ InitIndex /\ InitSync /\ InitBootOff

SpecPool == PoolInit /\ [][NextPool]_vars

\* The pool as runIndexing uses it: one goroutine starts the pool, submits
\* the tasks one after the other and calls Stop(), while another ranges over
\* Results().  Every goroutine that can take a step gets to take it, and the
\* per-task function returns.
NextStop ==
    \/ Start
    \/ \E t \in Tasks : SubmitCall("main", t)
    \/ \E w \in Workers : SubmitSend("main", w)
    \/ SubmitSendClosed("main")
    \/ SubmitCtxDone("main")
    \/ SubmitResult("main")
    \/ \E w \in Workers : WorkerExit(w)
    \/ \E w \in Workers : WorkerProcess(w)
    \/ \E w \in Workers : WorkerResult(w)
    \/ StopCancel
    \/ StopCloseTasks
    \/ StopCloseResults
    \/ RangeEnds

SpecStop ==
    /\ PoolInit /\ [][NextStop]_vars
    /\ \A w \in Workers :
          WF_vars(WorkerExit(w) \/ WorkerProcess(w) \/ WorkerResult(w))
    /\ WF_vars(StopCloseTasks \/ StopCloseResults)

IdxInit == InitPool /\ InitIndex /\ InitSync /\ InitBootOff

NextIdx ==
    \/ \E id \in ApiIDs, doc \in Docs : ApiIndex(id, doc)
    \/ \E id \in ApiIDs : ApiDelete(id)
    \/ \E id \in ApiIDs : ApiGet(id)
    \/ IndexStore("api")
    \/ IndexBleve("api")
    \/ DeleteBleve("api")
    \/ DeleteStore("api")

SpecIdx == IdxInit /\ [][NextIdx]_vars

Init == InitPool /\ InitIndex /\ InitSync /\ InitBootOff

Next ==
    \/ \E path \in Paths, body \in FileBodies : WriteFile(path, body)
    \/ \E path \in Paths : RemoveFile(path)
    \/ SyncStart
    \/ WalkDir
    \/ Visit
    \/ IndexFileStat
    \/ IndexFileRead
    \/ IndexStore("sync")
    \/ IndexBleve("sync")
    \/ IndexFileIndexed
    \/ IndexFileSetMeta
    \/ Scan
    \/ ReconcileDelete
    \/ DeleteBleve("sync")
    \/ DeleteStore("sync")
    \/ ReconcileDeleted
    \/ ReconcileDeleteMeta
    \/ SyncReturn

Spec == Init /\ [][Next]_vars

\* The sync passes over a tree in which files are also moved from one
\* directory to another.
NextMove ==
    \/ \E path \in Paths, body \in FileBodies : WriteFile(path, body)
    \/ \E path \in Paths : RemoveFile(path)
    \/ \E from \in Paths, to \in Paths : MoveFile(from, to)
    \/ SyncStart
    \/ WalkDir
    \/ Visit
    \/ IndexFileStat
    \/ IndexFileRead
    \/ IndexStore("sync")
    \/ IndexBleve("sync")
    \/ IndexFileIndexed
    \/ IndexFileSetMeta
    \/ Scan
    \/ ReconcileDelete
    \/ DeleteBleve("sync")
    \/ DeleteStore("sync")
    \/ ReconcileDeleted
    \/ ReconcileDeleteMeta
    \/ SyncReturn

SpecMove == Init /\ [][NextMove]_vars

BootInit == InitPool /\ InitBoot

NextBoot ==
    \/ MainBuildIndex
    \/ MainIndexed
    \/ MainStartLoop
    \/ BulkWalkDir
    \/ BulkPassOver
    \/ \E w \in Workers : BulkSubmit(w)
    \/ \E w \in Workers : BulkFileStat(w)
    \/ \E w \in Workers : BulkFileRead(w)
    \/ \E w \in Workers : IndexStore(BulkCaller(w))
    \/ \E w \in Workers : IndexBleve(BulkCaller(w))
    \/ \E w \in Workers : BulkFileIndexed(w)
    \/ \E w \in Workers : BulkFileSetMeta(w)
    \/ BulkStop
    \/ LoopSync
    \/ LoopReturned
    \/ LoopTick
    \/ Tick
    \/ WalkDir
    \/ Visit
    \/ IndexFileStat
    \/ IndexFileRead
    \/ IndexStore("sync")
    \/ IndexBleve("sync")
    \/ IndexFileIndexed
    \/ IndexFileSetMeta
    \/ Scan
    \/ ReconcileDelete
    \/ DeleteBleve("sync")
    \/ DeleteStore("sync")
    \/ ReconcileDeleted
    \/ ReconcileDeleteMeta

SpecBoot == BootInit /\ [][NextBoot]_vars


QueryInit ==
    /\ InitPool /\ InitBootOff
    /\ \/ InitLatest /\ InitSync
       \/ InitIndex /\ InitFiles

NextQuery ==
    \/ \E limit \in Limits : ApiListLatest(limit)
    \/ \E limit \in Limits : ApiCollectLatest(limit)

SpecQuery == QueryInit /\ [][NextQuery]_vars

\* Two goroutines calling Index.Index and Index.Delete for one id, with two
\* documents.
RaceIDs == {"A.json"}
RaceDocs == {doc \in Docs : doc.pub = 1}

RaceInit == InitPool /\ InitIndex /\ InitSync /\ InitBootOff

NextRace ==
    \/ \E id \in RaceIDs, doc \in RaceDocs : ApiIndex(id, doc)
    \/ \E id \in RaceIDs : ApiDelete(id)
    \/ \E id \in RaceIDs, doc \in RaceDocs : PeerIndex(id, doc)
    \/ \E id \in RaceIDs : PeerDelete(id)
    \/ \E c \in {"api", "peer"} : IndexStore(c)
    \/ \E c \in {"api", "peer"} : IndexBleve(c)
    \/ \E c \in {"api", "peer"} : DeleteBleve(c)
    \/ \E c \in {"api", "peer"} : DeleteStore(c)

SpecRace == RaceInit /\ [][NextRace]_vars

ConfigInit == InitPool /\ InitIndex /\ InitSync /\ InitConfig

NextConfig == BuildIndexPaths

SpecConfig == ConfigInit /\ [][NextConfig]_vars

ReindexInit == InitPool /\ InitBootOff /\ InitLatest /\ InitSync

NextReindex ==
    \/ ApiReindex
    \/ ReindexReset("api")
    \/ ReindexEach("api")

SpecReindex == ReindexInit /\ [][NextReindex]_vars

(***************************************************************************)
(* Claims about Index.Index and Index.Delete                               *)
(***************************************************************************)
Returned(c, op) == call[c].pc = "ret" /\ call[c].op = op

\* C5: when the store write of Index.Index fails, the call returns the
\* storage error, the index write is not attempted, and store and index are
\* as they were at the call.
C5_StoreFailureLeavesBoth ==
    \A c \in Callers :
        (Returned(c, "Index") /\ call[c].steps[1] = "store failed") =>
            /\ call[c].err = ErrStorePut
            /\ call[c].steps = <<"store failed">>
            /\ store = call[c].pre.store
            /\ index = call[c].pre.index

\* C5 witness: a failed store write over an id that holds another document.
C5_Witness ==
    \E c \in Callers :
        /\ Returned(c, "Index") /\ call[c].steps = <<"store failed">>
        /\ store[call[c].id] \notin {NoBytes, Marshal(call[c].doc)}
        /\ index[call[c].id] # NoDoc

\* C6 (as claimed): when the store write succeeds and the index write fails,
\* the call returns the indexing error, the store holds doc under id and the
\* index holds no entry for id that matches it.
C6_NoMatchingIndexEntry ==
    \A c \in Callers :
        (Returned(c, "Index") /\ call[c].steps = <<"store ok", "index failed">>) =>
            /\ call[c].err = ErrIndexPut
            /\ store[call[c].id] = Marshal(call[c].doc)
            /\ index[call[c].id] # call[c].doc

\* C6 (amended): when the store write succeeds and the index write fails, the
\* call returns the indexing error, the store write is kept (the store is the
\* store at the call with doc under id) and the index is exactly the index at
\* the call: no entry for a new id, the previous entry for an existing one.
C6_StoreKeptIndexAsBefore ==
    \A c \in Callers :
        (Returned(c, "Index") /\ call[c].steps = <<"store ok", "index failed">>) =>
            /\ call[c].err = ErrIndexPut
            /\ store = StorePut(call[c].pre.store, call[c].id, call[c].doc)
            /\ index = call[c].pre.index

\* C6 witness: the index write fails for an id that was stored and indexed
\* with another document; the store now differs from the index.
C6_Witness ==
    \E c \in Callers :
        /\ Returned(c, "Index") /\ call[c].steps = <<"store ok", "index failed">>
        /\ call[c].pre.store[call[c].id] \notin {NoBytes, Marshal(call[c].doc)}
        /\ index[call[c].id] \notin {NoDoc, call[c].doc}
        /\ store[call[c].id] = Marshal(call[c].doc)

\* C7: when the index delete of Index.Delete fails, the call returns the
\* indexing error, the store delete is not attempted, and the store entry and
\* the index entry are retained unchanged.
C7_IndexDeleteFailureLeavesBoth ==
    \A c \in Callers :
        (Returned(c, "Delete") /\ call[c].steps[1] = "index failed") =>
            /\ call[c].err = ErrIndexDelete
            /\ call[c].steps = <<"index failed">>
            /\ store = call[c].pre.store
            /\ index = call[c].pre.index

\* C7 witness: a failed index delete of a document that is stored and indexed.
C7_Witness ==
    \E c \in Callers :
        /\ Returned(c, "Delete") /\ call[c].steps = <<"index failed">>
        /\ store[call[c].id] # NoBytes
        /\ index[call[c].id] # NoDoc

\* C8 (as claimed): when the index delete succeeds and the store delete fails,
\* the call returns the storage error and id is still in the index while the
\* store has no document for it (searchable but not fetchable).
C8_DanglingSearchHit ==
    \A c \in Callers :
        (Returned(c, "Delete") /\ call[c].steps = <<"index ok", "store failed">>) =>
            /\ call[c].err = ErrStoreDelete
            /\ index[call[c].id] # NoDoc
            /\ StoreGet(store, call[c].id).err # "nil"

\* C8 (amended): when the index delete succeeds and the store delete fails,
\* the call returns the storage error, id is no longer in the index and the
\* store is exactly the store at the call: a document that was stored under
\* id is still fetchable by Get(id) but no longer searchable.
C8_FetchableNotSearchable ==
    \A c \in Callers :
        (Returned(c, "Delete") /\ call[c].steps = <<"index ok", "store failed">>) =>
            /\ call[c].err = ErrStoreDelete
            /\ index = BleveDelete(call[c].pre.index, call[c].id)
            /\ store = call[c].pre.store
            /\ StoreGet(store, call[c].id).data = call[c].pre.store[call[c].id]

\* C8 witness: the store delete fails for a document that was stored and
\* indexed; it is still fetchable and no longer in the index.
C8_Witness ==
    \E c \in Callers :
        /\ Returned(c, "Delete") /\ call[c].steps = <<"index ok", "store failed">>
        /\ call[c].pre.index[call[c].id] # NoDoc
        /\ index[call[c].id] = NoDoc
        /\ StoreGet(store, call[c].id).err = "nil"

\* C9: as long as no store or index operation has failed, between the calls
\* of one caller an id is in the store iff it is in the index, with the same
\* document, and a returned Index(id, doc) has put doc under id in both.
C9_StoreIndexAgree ==
    (faults = 0 /\ call["api"].pc \in {"idle", "ret"}) =>
        /\ \A id \in DocIDs :
              /\ store[id] # NoBytes <=> index[id] # NoDoc
              /\ store[id] # NoBytes => store[id] = Marshal(index[id])
        /\ Returned("api", "Index") =>
              /\ StoreGet(store, call["api"].id).data = Marshal(call["api"].doc)
              /\ index[call["api"].id] = call["api"].doc
        /\ Returned("api", "Delete") =>
              /\ store[call["api"].id] = NoBytes
              /\ index[call["api"].id] = NoDoc

\* C9 witness: without any failure, an Index call has replaced another
\* document that was stored and indexed under the same id.
C9_Witness ==
    /\ faults = 0 /\ Returned("api", "Index")
    /\ call["api"].pre.store[call["api"].id] \notin {NoBytes, Marshal(call["api"].doc)}
    /\ call["api"].pre.index[call["api"].id] \notin {NoDoc, call["api"].doc}
    /\ index[call["api"].id] = call["api"].doc

(***************************************************************************)
(* Claims about the worker pool                                            *)
(***************************************************************************)

\* C1: every task whose Submit returned before Stop() was entered has exactly
\* one Result by the time the result stream is closed, and no task ever has
\* two Results.
C1_ExactlyOneResult ==
    /\ \A t \in Tasks : Len(got[t]) <= 1
    /\ resultsClosed => \A t \in beforeStop : Len(got[t]) = 1

\* C1 witness: the stream is closed after at least two tasks were submitted
\* before Stop(), and each of them has its one Result.
C1_Witness ==
    /\ resultsClosed /\ cpc = "done"
    /\ Cardinality(beforeStop) >= 2
    /\ \A t \in beforeStop : Len(got[t]) = 1 /\ executed[t] = 1

\* C2 (as claimed): a Submit issued after Stop() has returned does not panic
\* (it is to deliver one "pool is closed" Result instead).
C2_SubmitAfterStopNoPanic ==
    \A s \in Submitters :
        sub[s].task \in afterStop => sub[s].pc \notin {"panic"}

(***************************************************************************)
(* Claims about the sync engine                                            *)
(***************************************************************************)

C4_MetaBeforeStoreVisible ==
    (sy.pc = "if_index" /\ call["sync"].steps # <<>>
        /\ call["sync"].steps[1] = "store ok") =>
        meta[sy.cur] = FileMetaOf(sy.info, sy.cur)

\* C4 (amended): the order is the opposite one.  Within a sync pass every
\* write of a file's FileMeta entry happens after that file's document has
\* been written to the store and to the index: at the step that writes the
\* entry the document is already readable from the store and searchable.
C4_StoreVisibleBeforeMeta ==
    [][\A path \in Paths :
         (meta'[path] # meta[path] /\ meta'[path] # NoMeta) =>
            /\ path = sy.cur
            /\ StoreGet(store, Base(path)).err = "nil"
            /\ StoreGet(store, Base(path)).data = Marshal(sy.rec)
            /\ index[Base(path)] = sy.rec]_vars

\* C4 witness: idx.Index has just returned nil for a rewritten file: the new
\* document is readable from the store and the FileMeta entry is still the
\* one of the previous indexing.
C4_Witness ==
    /\ sy.pc = "if_setmeta"
    /\ store[Base(sy.cur)] = Marshal(sy.rec)
    /\ meta[sy.cur] # NoMeta
    /\ meta[sy.cur] # FileMetaOf(sy.info, sy.cur)

\* C10 (as claimed): a pass that follows another pass with no file change
\* since that pass started never calls indexFile.
C10_SecondPassNeverParses ==
    (pass.n >= 2 /\ pass.prevStill) => sy.parses = 0

\* C10 (amended): when a pass returned no error and no file has changed since
\* that pass started, the next pass never calls indexFile and leaves the
\* store, the index, every FileMeta entry and Count() unchanged.
C10_SecondPassAfterCleanPass ==
    /\ []((pass.n >= 2 /\ pass.prevClean) =>
            sy.parses = 0)
    /\ [][(pass.n >= 2 /\ pass'.prevClean /\ sy.pc # "idle") =>
            /\ store' = store /\ index' = index /\ meta' = meta
            /\ Count' = Count]_vars

\* C10 witness: the second of two passes has returned, the first had indexed
\* a file and returned no error, and no file changed since the first started.
C10_Witness ==
    /\ sy.pc = "idle" /\ pass.n = 2 /\ pass.ok /\ pass.prevClean
    /\ \E path \in Paths : meta[path] # NoMeta /\ indexedAt[path] # {}
    /\ Count > 0

\* C11 (as claimed): once a pass during which no file changed has returned
\* no error, every file that is gone from disk and that the engine had indexed
\* before (no other file on disk sharing its docID) has no document under its
\* docID in the index or in the store, and no FileMeta entry.
C11_RemovedFileIsGone ==
    (sy.pc = "idle" /\ pass.n >= 1 /\ pass.ok /\ pass.still) =>
        \A path \in Paths :
            (/\ fs[path] = NoFile /\ indexedAt[path] # {}
             /\ \A other \in Paths :
                   Base(other) = Base(path) => fs[other] = NoFile) =>
                /\ index[Base(path)] = NoDoc
                /\ StoreGet(store, Base(path)).err # "nil"
                /\ meta[path] = NoMeta

\* docID := filepath.Base(path) is the docID of no other path that ever was
\* on disk.
SoleOwner(path) ==
    \A other \in Paths \ {path} : Base(other) = Base(path) => clock[other] = 0

\* C12 (as claimed): after a pass during which no file changed, every indexed
\* file on disk that holds a valid record has that record in the store and in
\* the index under its docID, and its FileMeta entry records the (modTime,
\* size) it has on disk.
C12_UpdatedAfterAnyPass ==
    (sy.pc = "idle" /\ pass.n >= 1 /\ pass.still) =>
        \A path \in Paths :
            (/\ fs[path] # NoFile /\ fs[path].body # Garbage
             /\ indexedAt[path] # {} /\ SoleOwner(path)) =>
                /\ StoreGet(store, Base(path)).data = fs[path].body
                /\ index[Base(path)] = Unmarshal(fs[path].body)
                /\ meta[path] = FileMetaOf(StatOf(fs[path]), path)

\* C12 (amended): after a pass that returned no error and during which no
\* file changed, every file on disk whose docID no other path shares has its
\* current content in the store and in the index under that docID (the old
\* content is replaced, so no longer searchable) and a FileMeta entry with its
\* current (modTime, size); and while indexFile works on a file whose docID
\* is already in the index, the number of documents does not change.
C12_UpdatedAfterCleanPass ==
    /\ []((sy.pc = "idle" /\ pass.n >= 1 /\ pass.ok /\ pass.still) =>
            \A path \in Paths :
                (fs[path] # NoFile /\ SoleOwner(path)) =>
                    /\ StoreGet(store, Base(path)).err = "nil"
                    /\ StoreGet(store, Base(path)).data = fs[path].body
                    /\ index[Base(path)] = Unmarshal(fs[path].body)
                    /\ meta[path] = FileMetaOf(StatOf(fs[path]), path))
    /\ [][(/\ sy.pc \in {"if_stat", "if_read", "if_index", "if_setmeta"}
           /\ index[Base(sy.cur)] # NoDoc) => Count' = Count]_vars

\* C12 witness: a file indexed by the first pass was rewritten with another
\* title (another size); the second pass returned no error and store, index
\* and FileMeta hold the new version, still as the only document.
C12_Witness ==
    /\ sy.pc = "idle" /\ pass.n = 2 /\ pass.ok /\ pass.still
    /\ \E path \in Paths :
          /\ fs[path] # NoFile /\ SoleOwner(path)
          /\ \E old \in indexedAt[path] : old.Size # SizeOf(fs[path].body)
          /\ store[Base(path)] = fs[path].body
          /\ index[Base(path)] = Unmarshal(fs[path].body)
          /\ meta[path] = FileMetaOf(StatOf(fs[path]), path)
          /\ Count = 1

\* C13 (as claimed): a pass repairs store-side drift: when a pass has
\* returned no error and no file changed since the pass before it started,
\* every file on disk that holds a valid record has that record in the store
\* under its docID.
C13_SyncRepairsStore ==
    (sy.pc = "idle" /\ pass.n >= 2 /\ pass.ok /\ pass.prevStill) =>
        \A path \in Paths :
            (fs[path] # NoFile /\ fs[path].body # Garbage) =>
                /\ StoreGet(store, Base(path)).err = "nil"
                /\ StoreGet(store, Base(path)).data = fs[path].body

\* C17: a pass runs to completion whatever fails.  A failed stat, read, parse,
\* Index or SetFileMeta of one file adds one error and the walk goes on with
\* the same remaining entries and directories; a directory that cannot be
\* read adds one error and the walk goes on with the next directory; a
\* failed reconciliation Delete
\* adds one error and DeleteFileMeta is still called for the same entry; no
\* error recorded earlier in the pass is lost; as long as the pass has not
\* returned it has a next step; it returns only from the end of
\* reconciliation, with every listed entry visited and every stale entry
\* handled; and it returns nil iff no error was recorded.
C17_PassRunsToCompletion ==
    /\ []((sy.pc = "idle" /\ pass.n >= 1) => (pass.ok <=> sy.errs = <<>>))
    /\ [](sy.pc # "idle" =>
            ENABLED (\/ WalkDir \/ Visit \/ IndexFileStat \/ IndexFileRead
                     \/ IndexStore("sync") \/ IndexBleve("sync")
                     \/ IndexFileIndexed \/ IndexFileSetMeta \/ Scan
                     \/ ReconcileDelete \/ DeleteBleve("sync")
                     \/ DeleteStore("sync") \/ ReconcileDeleted
                     \/ ReconcileDeleteMeta \/ SyncReturn))
    /\ [][/\ (sy.pc # "idle" /\ sy'.pc # "idle") =>
                /\ Len(sy'.errs) \in {Len(sy.errs), Len(sy.errs) + 1}
                /\ SubSeq(sy'.errs, 1, Len(sy.errs)) = sy.errs
          /\ (/\ sy.pc \in {"walk", "if_stat", "if_read", "if_index", "if_setmeta"}
              /\ Len(sy'.errs) > Len(sy.errs)) =>
                /\ sy'.pc = "walk"
                /\ sy'.dirs = IF sy.pc = "walk" /\ sy.entries = <<>>
                                THEN Tail(sy.dirs) ELSE sy.dirs
                /\ sy'.entries = IF sy.pc = "walk" /\ sy.entries # <<>>
                                   THEN Tail(sy.entries) ELSE sy.entries
                /\ sy'.errs[Len(sy'.errs)][2] = sy'.cur
          /\ (sy.pc = "if_index" /\ sy'.pc # "if_index"
                /\ call["sync"].err # "nil") =>
                sy'.errs = Append(sy.errs, <<call["sync"].err, sy.cur>>)
          /\ (sy.pc = "rec_del" /\ sy'.pc # "rec_del") =>
                /\ sy'.pc = "rec_meta" /\ sy'.stale = sy.stale
                /\ call["sync"].err # "nil" =>
                     sy'.errs = Append(sy.errs, <<call["sync"].err,
                                                  Head(sy.stale).path>>)
          /\ (sy.pc = "rec_meta" /\ sy'.pc # "rec_meta") =>
                /\ sy'.pc = "rec" /\ sy'.stale = Tail(sy.stale)
                /\ meta'[Head(sy.stale).path] # NoMeta =>
                     Len(sy'.errs) = Len(sy.errs) + 1
          /\ (sy.pc # "idle" /\ sy'.pc = "idle") =>
                /\ sy.pc = "rec" /\ sy.stale = <<>>
                /\ sy.entries = <<>> /\ sy.dirs = <<>>
                /\ sy'.errs = sy.errs
                /\ pass'.ok = (sy.errs = <<>>)]_vars

\* C17 witness: the first file of the walk failed to parse, a later file of
\* the same pass was indexed, and the pass returned the error.
C17_Witness ==
    /\ sy.pc = "idle" /\ pass.n = 1 /\ ~pass.ok
    /\ sy.errs = <<<<"parse", <<"a", "A.json">>>>>>
    /\ meta[<<"b", "A.json">>] # NoMeta
    /\ store["A.json"] = fs[<<"b", "A.json">>].body

\* C13 (amended): a pass repairs store-side drift only through FileMeta.  A
\* file that was on disk unchanged since the pass before started, and whose
\* docID no other path shares, has its document in the store and in the
\* index once a pass has returned no error: a Put that failed part-way left
\* no matching FileMeta entry, so the file is handed to indexFile again.  A
\* step that skips a file (matching entry) or only walks never writes the
\* store, whatever the store holds under the file's docID.
C13_SyncRepairsOwnFailure ==
    /\ []((sy.pc = "idle" /\ pass.n >= 2 /\ pass.ok /\ pass.prevStill) =>
            \A path \in Paths :
                (fs[path] # NoFile /\ SoleOwner(path)) =>
                    /\ StoreGet(store, Base(path)).err = "nil"
                    /\ StoreGet(store, Base(path)).data = fs[path].body
                    /\ index[Base(path)] = Unmarshal(fs[path].body))
    /\ [][(sy.pc = "walk" /\ sy'.pc = "walk") =>
            (store' = store /\ index' = index /\ meta' = meta)]_vars

\* C13 witness: the first pass returned an error and left no matching
\* FileMeta entry for a file; no file changed; the second pass parsed the
\* file again, returned nil, and store and index now hold its document.
C13_Witness ==
    /\ sy.pc = "idle" /\ pass.n = 2 /\ pass.ok /\ pass.prevStill
    /\ ~pass.prevClean /\ sy.parses = 1
    /\ \E path \in Paths :
          /\ fs[path] # NoFile /\ SoleOwner(path)
          /\ store[Base(path)] = fs[path].body
          /\ index[Base(path)] = Unmarshal(fs[path].body)
          /\ Cardinality(indexedAt[path]) = 1

C20_LatestBoundedAndSorted ==
    (\A c \in Callers : call[c].pc \in {"idle", "ret"}) =>
        \A limit \in 1..MaxLimit : \A r \in ListLatest(limit) :
            /\ Len(r) <= limit
            /\ \A i, j \in 1..Len(r) : i < j => r[i].pub >= r[j].pub

(***************************************************************************)
(* Claims about startup: bulk indexing and the sync loop                   *)
(***************************************************************************)

\* C14: the sync loop never runs two passes at once.  At most one call of
\* syncOnce is in progress; a pass starts only when none is in progress; a
\* tick that fires does not start a pass, and the loop takes a tick only
\* when no pass is in progress.
C14_PassesNeverOverlap ==
    /\ [](boot.active <= 1 /\ (boot.active = 1 <=> sy.pc # "idle"))
    /\ [][/\ pass'.n # pass.n =>
               (boot.active = 0 /\ sy.pc = "idle" /\ boot'.active = 1)
          /\ (~boot.tick /\ boot'.tick) => (pass'.n = pass.n /\ sy' = sy)
          /\ (boot.tick /\ ~boot'.tick) => boot.active = 0]_vars

\* C14 witness: the second pass of the loop is running and the ticker has
\* fired meanwhile.
C14_Witness ==
    /\ pass.n >= 2
    /\ boot.loop = "pass" /\ sy.pc # "idle"
    /\ boot.tick

\* C15 (as claimed): runIndexing and syncOnce are never in progress at the
\* same time, with AsyncIndex set as well as without.
C15_BulkAndSyncNeverOverlap ==
    ~(bulk.pc = "walk" /\ boot.active > 0)

\* C16 (as claimed): bulk indexing before the first sync pass does what a
\* pass does: it hands no file to indexFile whose FileMeta entry matches the
\* file's modification time and size, and once it has returned without a
\* failure no file that is gone from disk has a FileMeta entry or a document
\* left.
C16_BulkSkipsAndReconciles ==
    pass.n = 0 =>
        /\ \A w \in Workers :
              bw[w].pc = "if_stat" =>
                  ~Unchanged(meta[bw[w].path], StatOf(fs[bw[w].path]))
        /\ (bulk.pc = "done" /\ faults = 0) =>
              \A path \in Paths :
                  fs[path] = NoFile =>
                      /\ meta[path] = NoMeta
                      /\ store[Base(path)] = NoBytes
                      /\ index[Base(path)] = NoDoc

\* C19 (as claimed): with the index directory in the source tree, no file
\* in that directory and no file without the .json extension is handed to
\* indexFile by a sync pass or by a worker of the bulk indexing, and none
\* has a document or a FileMeta entry.
C19_NoSelfIndexing ==
    IndexInTree(cfg) =>
        \A path \in AllPaths :
            (path[1] = IndexDir \/ Ext(path) # ".json") =>
                /\ sy.pc \in {"if_stat", "if_read", "if_index", "if_setmeta"}
                       => sy.cur # path
                /\ \A w \in Workers : bw[w].pc # "idle" => bw[w].path # path
                /\ meta[path] = NoMeta
                /\ store[Base(path)] = NoBytes
                /\ index[Base(path)] = NoDoc

(***************************************************************************)
(* Claims about the queries                                                *)
(***************************************************************************)

\* C21: when store and index hold the same N documents and their publish
\* dates differ pairwise, a call ListLatest(k) with 0 < k < N returns no
\* error and exactly the k documents published last, the latest first,
\* whether the sorted query answers or the heap over the store does.
C21_LatestExact ==
    LET ids == {id \in DocIDs : index[id] # NoDoc}
        ret == call["api"]
        k == ret.arg
    IN  (/\ ret.pc = "ret" /\ ret.op = "ListLatest"
         /\ ret.steps \in {<<"sorted">>, <<"fallback">>} /\ ret.err = "nil"
         /\ \A id \in DocIDs : store[id] = IF id \in ids THEN Marshal(index[id])
                                                          ELSE NoBytes
         /\ \A a, b \in ids : a # b => index[a].pub # index[b].pub
         /\ 0 < k /\ k < Cardinality(ids))
        => /\ Len(ret.out) = k
           /\ \A i \in 1..k : \E id \in ids : ret.out[i] = index[id]
           /\ \A i, j \in 1..k : i < j => ret.out[i].pub > ret.out[j].pub
           /\ \A id \in ids :
                 (\A i \in 1..k : ret.out[i] # index[id])
                     => index[id].pub < ret.out[k].pub

\* C21 witness: three documents with three dates in store and index, and
\* ListLatest(2) has returned the two latest from the heap over the store.
C21_Witness ==
    /\ Cardinality({id \in DocIDs : index[id] # NoDoc}) = 3
    /\ \A id \in DocIDs : index[id] # NoDoc => store[id] = Marshal(index[id])
    /\ \A id \in DocIDs : index[id] = NoDoc => store[id] = NoBytes
    /\ call["api"].pc = "ret" /\ call["api"].op = "ListLatest"
    /\ call["api"].arg = 2 /\ call["api"].steps = <<"fallback">>
    /\ call["api"].out = <<DatedDoc(3), DatedDoc(2)>>

\* C22: a call CollectLatest(root, limit) that WalkDir does not fail returns
\* no error, whether or not a file is unreadable or does not parse; with P
\* files that can be read and parsed it returns min(limit, P) of their
\* records, the dates never increasing, and no record left out is newer
\* than a returned one; the heap holds at most limit records after each
\* file; and for the five files published 0 to 4 hours ago, limit 3 gives
\* the records of 0, 1 and 2 hours ago in that order.
C22_CollectLatest ==
    LET ret == call["api"]
        limit == LimitOf(ret.arg)
        unreadable == IF Len(ret.steps) = 2 THEN {ret.steps[2]} ELSE {}
        parsed == {path \in AllPaths : /\ fs[path] # NoFile
                                       /\ path \notin unreadable
                                       /\ fs[path].body # Garbage}
        P == Cardinality(parsed)
        inOut(pub) == Cardinality({i \in 1..Len(ret.out) : ret.out[i].pub = pub})
        inTree(pub) == Cardinality({path \in parsed :
                                      Unmarshal(fs[path].body).pub = pub})
    IN  (ret.pc = "ret" /\ ret.op = "CollectLatest" /\ ret.steps # <<"walk failed">>)
        => /\ ret.err = "nil"
           /\ Len(ret.out) = (IF limit < P THEN limit ELSE P)
           /\ \A i \in 1..Len(ret.out) :
                 \E path \in parsed : ret.out[i] = Unmarshal(fs[path].body)
           /\ \A i, j \in 1..Len(ret.out) : i < j => ret.out[i].pub >= ret.out[j].pub
           /\ \A pub \in {Unmarshal(fs[path].body).pub : path \in parsed} :
                 /\ inOut(pub) <= inTree(pub)
                 /\ inOut(pub) < inTree(pub)
                       => \A i \in 1..Len(ret.out) : pub <= ret.out[i].pub
           /\ \A n \in 0..Len(WalkFiles) :
                 Len(CollectScan(SubSeq(WalkFiles, 1, n), <<>>, limit, unreadable))
                     <= limit
           /\ (fs = FiveFiles /\ ret.arg = 3 /\ unreadable = {})
                 => ret.out = <<Unmarshal(FiveFiles[WalkOrder[1]].body),
                                Unmarshal(FiveFiles[WalkOrder[2]].body),
                                Unmarshal(FiveFiles[WalkOrder[3]].body)>>

\* C22 witness: CollectLatest(root, 3) has returned three of the five files
\* published 0 to 4 hours ago.
C22_Witness ==
    /\ fs = FiveFiles
    /\ call["api"].pc = "ret" /\ call["api"].op = "CollectLatest"
    /\ call["api"].arg = 3 /\ call["api"].steps = <<"every file read">>
    /\ Len(call["api"].out) = 3
    /\ call["api"].out[1].pub = 5 /\ call["api"].out[3].pub = 3

\* C23: a limit of zero or less stands for 50.  In every state a caller can
\* find, for every limit <= 0, ListLatest(limit) can return exactly what ListLatest(50) can,
\* on the sorted branch and on the fallback branch, and CollectLatest(root,
\* limit) returns what CollectLatest(root, 50) returns, whichever file is
\* unreadable; and a call that has returned with such a limit has returned
\* one of those values.
C23_LimitDefault ==
    LET ret == call["api"]
        unreadable == IF Len(ret.steps) = 2 THEN {ret.steps[2]} ELSE {}
    IN  /\ ret.pc = "idle" =>
              \A limit \in {l \in Limits : l <= 0} :
                  /\ ListLatestSorted(limit) = ListLatestSorted(50)
                  /\ ListLatestFallback(limit) = ListLatestFallback(50)
                  /\ \A u \in {{}} \cup {{path} : path \in AllPaths} :
                        CollectLatest(limit, u) = CollectLatest(50, u)
        /\ (ret.pc = "ret" /\ ret.arg <= 0 /\ ret.err = "nil") =>
              /\ ret.steps = <<"sorted">> => ret.out \in ListLatestSorted(50)
              /\ ret.steps = <<"fallback">> => ret.out = ListLatestFallback(50)
              /\ ret.op = "CollectLatest" => ret.out = CollectLatest(50, unreadable)

\* C23 witness: ListLatest(0) has returned the records of all ids.
C23_Witness ==
    /\ call["api"].pc = "ret" /\ call["api"].op = "ListLatest"
    /\ call["api"].arg = 0 /\ call["api"].steps = <<"sorted">>
    /\ Len(call["api"].out) = Cardinality(DocIDs)

\* C24 (as claimed): Get(id) returns the serialization of the document of
\* the most recent Put(id, doc) that returned no error, until a Delete(id)
\* removes it, and a not-found error exactly when the store has no entry
\* for id.
C24_GetReturnsLastSuccessfulPut ==
    LET ret == call["api"] IN
    Returned("api", "Get") =>
        /\ puts[ret.id].acked # NoDoc =>
              ret.err = "nil" /\ ret.out = Marshal(puts[ret.id].acked)
        /\ ret.err = "not found" <=> store[ret.id] = NoBytes

\* C24 (amended): Get(id) returns the serialization of the document of the
\* most recent Put(id, doc) that wrote the store, whether or not that Put
\* returned an error, until a Delete(id) removes the store entry, and a
\* not-found error exactly when the store has no entry for id, whatever the
\* index holds; a Put that returned no error was the last to write the store
\* when it returned.
C24_GetReturnsLastStoredPut ==
    LET ret == call["api"] IN
    /\ Returned("api", "Get") =>
          /\ puts[ret.id].written # NoDoc =>
                ret.err = "nil" /\ ret.out = Marshal(puts[ret.id].written)
          /\ puts[ret.id].written = NoDoc => ret.err = "not found"
          /\ ret.err \in {"nil", "not found"}
          /\ ret.err = "not found" <=> store[ret.id] = NoBytes
    /\ (Returned("api", "Index") /\ ret.err = "nil") =>
          puts[ret.id] = [acked |-> ret.doc, written |-> ret.doc]

\* C24 witness: Get(id) has returned the document of a Put that failed
\* after its store write, while the index holds another document for id.
C24_Witness ==
    LET ret == call["api"] IN
    /\ Returned("api", "Get") /\ ret.err = "nil"
    /\ ret.out = Marshal(puts[ret.id].written)
    /\ puts[ret.id].acked \notin {NoDoc, puts[ret.id].written}
    /\ index[ret.id] = puts[ret.id].acked

(***************************************************************************)
(* Claims about Index.Reindex                                              *)
(***************************************************************************)

\* C25: no step of Reindex changes the documents or the FileMeta entries of
\* the store, and when Reindex has returned no error the index is open and
\* holds exactly the ids of the store, each with the document stored for it:
\* entries the index alone had are gone and stored documents the index did
\* not have are indexed.
C25_ReindexRebuilds ==
    /\ [][(call["api"].op = "Reindex" \/ call["api"]'.op = "Reindex")
            => (store' = store /\ meta' = meta)]_vars
    /\ []((Returned("api", "Reindex") /\ call["api"].err = "nil") =>
            /\ ixOpen
            /\ \A id \in DocIDs :
                  /\ index[id] # NoDoc <=> store[id] # NoBytes
                  /\ store[id] # NoBytes => index[id] = Unmarshal(store[id]))

\* C25 witness: Reindex has returned no error, an entry the index alone had
\* is gone and the stored documents are indexed.
C25_Witness ==
    /\ Returned("api", "Reindex") /\ call["api"].err = "nil"
    /\ \E id \in DocIDs :
          /\ call["api"].pre.index[id] # NoDoc /\ store[id] = NoBytes
          /\ index[id] = NoDoc
    /\ \E id \in DocIDs : store[id] # NoBytes /\ index[id] = Unmarshal(store[id])

\* C26 (as claimed): a stored document whose bytes do not parse does not
\* make Reindex fail: Reindex never returns the unmarshal error.
C26_UnparsableIsSkipped ==
    Returned("api", "Reindex") => call["api"].err # ErrUnmarshal

(***************************************************************************)
(* Claims about the configuration                                          *)
(***************************************************************************)

C28_ConcurrentCallsSerialize ==
    (faults = 0 /\ \A c \in {"api", "peer"} : call[c].pc \in {"idle", "ret"}) =>
        \A id \in DocIDs :
            /\ index[id] # NoDoc <=> store[id] # NoBytes
            /\ store[id] # NoBytes => index[id] = Unmarshal(store[id])

(***************************************************************************)
(* Claims about the worker pool: concurrency and cancellation              *)
(***************************************************************************)

\* C29: at most NumWorkers tasks are with the per-task function at any time;
\* a Submit returns from the send only in a step in which a worker that was
\* waiting receives its task; and a task that was handed over and has no
\* Result yet is held by exactly one worker: none waits in a queue.
C29_BoundedConcurrency ==
    /\ [](Cardinality({t \in Tasks : \E w \in Workers :
                          wk[w].pc = "proc" /\ wk[w].task = t}) <= NumWorkers)
    /\ [](\A t \in used :
            ((\A s \in Submitters : sub[s].task # t) /\ got[t] = <<>>) =>
                Cardinality({w \in Workers : /\ wk[w].task = t
                                             /\ wk[w].pc \in {"proc", "send"}}) = 1)
    /\ [][\A s \in Submitters :
            (sub[s].pc = "select" /\ sub'[s].pc = "idle") =>
                \E w \in Workers :
                    /\ wk[w].pc = "recv"
                    /\ wk'[w].pc = "proc" /\ wk'[w].task = sub[s].task]_vars

\* C29 witness: every worker holds a task and a Submit waits in its select
\* for a worker to receive the next one.
C29_Witness ==
    /\ \A w \in Workers : wk[w].pc \in {"proc", "send"}
    /\ \E s \in Submitters : sub[s].pc = "select"
    /\ ~ctxDone

\* C30: a task a worker has received is run by the per-task function once,
\* also when the context is cancelled or Stop() runs meanwhile: the worker
\* goes from the task to the function and from the function to its Result,
\* and the result stream is closed only when no worker holds a task.  The
\* Result of the task carries the error the function returned.  A task with
\* the "pool is closed" Result was never run.
C30_DispatchedRunsToCompletion ==
    /\ [](\A t \in Tasks :
            /\ executed[t] <= 1
            /\ (got[t] # <<>> /\ got[t][1] = ErrPoolClosed) => executed[t] = 0
            /\ (got[t] # <<>> /\ got[t][1] # ErrPoolClosed) => executed[t] = 1)
    /\ [](resultsClosed => \A w \in Workers : wk[w].pc \notin {"proc", "send"})
    /\ [][\A w \in Workers :
            /\ (wk[w].pc = "proc" /\ wk'[w] # wk[w]) =>
                  /\ wk'[w].pc = "send" /\ wk'[w].task = wk[w].task
                  /\ executed'[wk[w].task] = executed[wk[w].task] + 1
            /\ (wk[w].pc = "send" /\ wk'[w] # wk[w]) =>
                  /\ wk'[w].pc = "recv"
                  /\ got'[wk[w].task] = Append(got[wk[w].task], wk[w].err)]_vars

\* C30 witness: Stop() has cancelled the context and closed the task
\* channel while a worker held a task it had received before; the worker
\* has run the function and is about to send the Result.
C30_Witness ==
    /\ ctxDone /\ tasksClosed
    /\ \E w \in Workers :
          /\ wk[w].pc = "send" /\ wk[w].task \in beforeStop
          /\ executed[wk[w].task] = 1 /\ got[wk[w].task] = <<>>
    /\ \E t \in Tasks : got[t] = <<ErrPoolClosed>> /\ executed[t] = 0

\* C31 (as claimed): a Submit that was entered before Stop() returned, and
\* is in progress while Stop() runs, sends on no closed channel: it does not
\* panic, and when it is to send its "pool is closed" Result the result
\* stream is still open.
C31_SubmitDuringStopSafe ==
    \A s \in Submitters :
        (sub[s].task # 0 /\ sub[s].task \notin afterStop) =>
            /\ sub[s].pc # "panic"
            /\ sub[s].pc = "sendres" => ~resultsClosed

\* C32: once Stop() has been entered with no Submit in progress and the
\* result stream being drained, it returns; the result stream is closed
\* only in a state in which every worker has exited and every task a worker
\* had received has its Result; and after Stop() has returned no worker is
\* running and the wait group is at zero.
C32_StopTerminatesInOrder ==
    /\ (stopCalled /\ \A s \in Submitters : sub[s].pc = "idle")
          ~> (mpc = "stopped")
    /\ [][(~resultsClosed /\ resultsClosed') =>
            /\ \A w \in Workers : wk[w].pc = "exited" /\ wk[w].task = 0
            /\ \A t \in beforeStop : Len(got[t]) = 1]_vars
    /\ [](mpc = "stopped" =>
            /\ resultsClosed /\ wg = 0
            /\ \A w \in Workers : wk[w].pc = "exited")

\* C32 witness: Stop() waits in p.wg.Wait() with the task channel closed:
\* one worker has exited, another still has the Result of its last task to
\* deliver, and the result stream is open.
C32_Witness ==
    /\ mpc = "stop_wait" /\ ~resultsClosed /\ wg > 0
    /\ \A s \in Submitters : sub[s].pc = "idle"
    /\ \E w \in Workers : wk[w].pc = "exited"
    /\ \E w \in Workers : wk[w].pc = "send" /\ got[wk[w].task] = <<>>

(***************************************************************************)
(* Claims about skipped hits                                               *)
(***************************************************************************)

\* C33: a call of ListLatest whose sorted query succeeded returns no error
\* and the records of the hits the store holds and can unmarshal, in the
\* order of the hits, the hits being the limit latest documents of the
\* index in descending date order; hits that are missing from the store or
\* do not parse are left out and the call does not turn to the store scan
\* for them: a call answers from the store scan only in a step in which
\* the search failed (a fault, or a closed index).
C33_SkippedHitsDoNotFail ==
    /\ [](LET ret == call["api"]
              hits == ret.todo
              broken == {ret.steps[i] : i \in 2..Len(ret.steps)}
              kept == SelectSeq(hits, LAMBDA id : store[id] # NoBytes /\ id \notin broken)
              indexed == {id \in DocIDs : index[id] # NoDoc}
          IN  (/\ ret.pc = "ret" /\ ret.op = "ListLatest"
               /\ Head(ret.steps) = "sorted")
              => /\ ret.err = "nil"
                 /\ Len(ret.out) = Len(kept)
                 /\ \A i \in 1..Len(kept) : ret.out[i] = Unmarshal(store[kept[i]])
                 /\ Len(hits) = (IF LimitOf(ret.arg) < Cardinality(indexed)
                                   THEN LimitOf(ret.arg) ELSE Cardinality(indexed))
                 /\ \A i, j \in 1..Len(hits) :
                       i < j => /\ hits[i] # hits[j]
                                /\ index[hits[i]].pub >= index[hits[j]].pub
                 /\ \A id \in indexed :
                       (\A i \in 1..Len(hits) : hits[i] # id) =>
                           \A i \in 1..Len(hits) : index[hits[i]].pub >= index[id].pub)
    /\ [][(/\ call["api"].pc = "idle"
           /\ call'["api"].pc = "ret" /\ call'["api"].op = "ListLatest"
           /\ Head(call'["api"].steps) = "fallback")
          => (~ixOpen \/ faults' > faults)]_vars

\* C33 witness: the sorted query has returned three hits; the store does
\* not hold one of them, the stored value of another does not parse, and
\* the call has returned the record of the third.
C33_Witness ==
    /\ call["api"].pc = "ret" /\ call["api"].op = "ListLatest"
    /\ Len(call["api"].todo) = 3
    /\ Len(call["api"].steps) = 2 /\ call["api"].steps[1] = "sorted"
    /\ \E i \in 1..3 : store[call["api"].todo[i]] = NoBytes
    /\ Len(call["api"].out) = 1 /\ call["api"].err = "nil"

(***************************************************************************)
(* Claims about reconciliation                                             *)
(***************************************************************************)

\* C34 (as claimed): syncOnce removes the FileMeta entry of a file that has
\* disappeared only when the idx.Delete of its document has returned no
\* error: no step removes the entry of a path for which the pass has just
\* recorded a failed Delete.
C34_MetaKeptWhenDeleteFails ==
    [][\A path \in AllPaths :
          (meta[path] # NoMeta /\ meta'[path] = NoMeta) =>
              ~(/\ sy.errs # <<>>
                /\ sy.errs[Len(sy.errs)][1] \in {ErrIndexDelete, ErrStoreDelete}
                /\ sy.errs[Len(sy.errs)][2] = path)]_vars

\* C35 (as claimed): when a pass has returned no error and no file changed
\* since it started, every file of the source tree that holds a record has
\* a document under its docID in the store and in the index, whether or not
\* another path has or had the same file name.
C35_PresentFilesHaveDocuments ==
    (sy.pc = "idle" /\ pass.n >= 1 /\ pass.ok /\ pass.still) =>
        \A path \in Paths :
            (fs[path] # NoFile /\ fs[path].body # Garbage) =>
                /\ store[Base(path)] # NoBytes
                /\ index[Base(path)] # NoDoc

====
